---- MODULE Spec2Model ----
(***************************************************************************)
(* A model of rpm-qa-rs: the two decoders of the package inventory (the    *)
(* JSON stream decoder of raw.rs and the tab-stream decoder of parse.rs),  *)
(* the normalizer TryFrom<RawPackage> for Package, the digest algorithm    *)
(* registry and the FileFlags bitset of lib.rs.                            *)
(*                                                                         *)
(* One behaviour of Spec is one decode call: Init picks the decoder, each  *)
(* step reads the next line (tab stream) or the next JSON value (JSON      *)
(* stream) of the input, and the call ends with Ok(packages) at the end of *)
(* the stream or with Err at the first fault.  The variable input records  *)
(* what has been read, so that properties can be stated about the input.   *)
(*                                                                         *)
(* Text is modelled as TLA+ strings, except file paths, directory names    *)
(* and basenames, which are sequences of one-character strings so that     *)
(* joining and the leading separator are computed and not looked up.       *)
(***************************************************************************)
EXTENDS Integers, Sequences, FiniteSets, TLC

VARIABLES decoder, input, status, packages, current_pkg, skip, result, error,
          flag_value, flag_result

vars == <<decoder, input, status, packages, current_pkg, skip, result, error,
          flag_value, flag_result>>

(***************************************************************************)
(* Bounds of the model.                                                    *)
(***************************************************************************)
\* lines read by one tab-stream decode call
MaxLines == 4
\* JSON values read by one JSON decode call
MaxObjects == 3
\* raw flag values 0 .. 2^MaxFlagBits - 1 are enumerated
MaxFlagBits == 13
\* digest algorithm codes 0 .. MaxAlgoCode are declared
MaxAlgoCode == 20
\* records read by one decode call that declares such codes
MaxAlgoRecords == 2
\* a per-file field of a JSON record is an array of 0 .. MaxArrayLen elements
MaxArrayLen == 3

(***************************************************************************)
(* Option<T>, maps, errors.                                                *)
(***************************************************************************)
None == <<>>
Some(x) == <<x>>
IsSome(o) == o # <<>>
IsNone(o) == o = <<>>
Unwrap(o) == o[1]

EmptyMap == <<>>
\* a variant of MapInsert that keeps the entry of a present key
MapInsertKeepFirst(m, k, v) == IF k \in DOMAIN m THEN m ELSE (k :> v) @@ m
\* HashMap::insert / BTreeMap::insert: a present key is overwritten
MapInsert(m, k, v) == (k :> v) @@ m

\* a variant of MkError whose message names no line
MkErrorNoLine(kind, line, pkg, index, detail) ==
    [kind |-> kind, line |-> 0, pkg |-> pkg, index |-> index, detail |-> detail]
\* an anyhow error: what the message chain names
MkError(kind, line, pkg, index, detail) ==
    [kind |-> kind, line |-> line, pkg |-> pkg, index |-> index, detail |-> detail]
Fail(e) == [ok |-> FALSE, err |-> e]
NoLine == 0
NoIndex == 0 - 1
\* the error of a line with the wrong number of fields: the message also
\* names the count the decoder expects and the count the line has
FieldCountError(kind, line, pkg, expected, got) ==
    [expected |-> expected, got |-> got] @@ MkError(kind, line, pkg, NoIndex, "")

GPG == "gpg-pubkey"
NONE_SENTINEL == "(none)"

(***************************************************************************)
(* str::parse::<uN>() on the decimal literals of the model's alphabet:     *)
(* every other text (empty, "(none)", "bad", ...) is not a number.         *)
(***************************************************************************)
NumLit ==
    ("0" :> 0) @@ ("1" :> 1) @@ ("2" :> 2) @@ ("4" :> 4) @@ ("8" :> 8) @@
    ("64" :> 64) @@ ("89" :> 89) @@ ("100" :> 100) @@ ("1000" :> 1000) @@
    ("2000" :> 2000) @@ ("3000" :> 3000) @@ ("16877" :> 16877) @@
    ("33188" :> 33188) @@
    ("41471" :> 41471) @@ ("65536" :> 65536) @@
    ("3" :> 3) @@ ("5" :> 5) @@ ("6" :> 6) @@ ("7" :> 7) @@ ("9" :> 9) @@
    ("10" :> 10) @@ ("11" :> 11) @@ ("12" :> 12) @@ ("13" :> 13) @@ ("14" :> 14) @@
    ("15" :> 15) @@ ("16" :> 16) @@ ("17" :> 17) @@ ("18" :> 18) @@ ("19" :> 19) @@
    ("20" :> 20) @@ ("21" :> 21)

ParseU64(s) == IF s \in DOMAIN NumLit THEN Some(NumLit[s]) ELSE None
ParseU32(s) == IF s \in DOMAIN NumLit THEN Some(NumLit[s]) ELSE None
ParseU16(s) == IF s \in DOMAIN NumLit /\ NumLit[s] < 2^16 THEN Some(NumLit[s]) ELSE None

\* format!("{v}") of an unsigned number: its decimal literal
Decimal(v) == CHOOSE s \in DOMAIN NumLit : NumLit[s] = v

(***************************************************************************)
(* lib.rs: DigestAlgorithm and its registry.                               *)
(***************************************************************************)
DigestAlgorithmCodes ==
    (1 :> "Md5") @@ (2 :> "Sha1") @@ (3 :> "RipeMd160") @@ (5 :> "Md2") @@
    (6 :> "Tiger192") @@ (7 :> "Haval5160") @@ (8 :> "Sha256") @@
    (9 :> "Sha384") @@ (10 :> "Sha512") @@ (11 :> "Sha224") @@
    (12 :> "Sha3_256") @@ (14 :> "Sha3_512")

\* a variant of DigestAlgorithmTryFrom that resolves every code from 1 to 14
DigestAlgorithmTryFromDense(v) ==
    IF v \in DOMAIN DigestAlgorithmCodes THEN Some(DigestAlgorithmCodes[v])
    ELSE IF v \in 1..14 THEN Some("Md5") ELSE None
\* TryFrom<u32> for DigestAlgorithm: None stands for Err(())
DigestAlgorithmTryFrom(v) ==
    IF v \in DOMAIN DigestAlgorithmCodes THEN Some(DigestAlgorithmCodes[v]) ELSE None

(***************************************************************************)
(* lib.rs: FileFlags.                                                      *)
(***************************************************************************)
RECURSIVE BitAnd(_, _)
\* a & b on naturals
BitAnd(a, b) ==
    IF a = 0 \/ b = 0 THEN 0
    ELSE (IF a % 2 = 1 /\ b % 2 = 1 THEN 1 ELSE 0) + 2 * BitAnd(a \div 2, b \div 2)

CONFIG == 2^0
DOC == 2^1
\* a variant of MISSINGOK one bit off
MISSINGOK_Bit2 == 2^2
MISSINGOK == 2^3
NOREPLACE == 2^4
GHOST == 2^6
LICENSE == 2^7
README == 2^8
ARTIFACT == 2^12

FromRaw(value) == [raw |-> value]
Raw(f) == f.raw
IsConfig(f) == BitAnd(f.raw, CONFIG) # 0
IsDoc(f) == BitAnd(f.raw, DOC) # 0
IsMissingok(f) == BitAnd(f.raw, MISSINGOK) # 0
IsNoreplace(f) == BitAnd(f.raw, NOREPLACE) # 0
IsGhost(f) == BitAnd(f.raw, GHOST) # 0
IsLicense(f) == BitAnd(f.raw, LICENSE) # 0
IsReadme(f) == BitAnd(f.raw, README) # 0
IsArtifact(f) == BitAnd(f.raw, ARTIFACT) # 0

(***************************************************************************)
(* Paths: sequences of characters.  The file maps of the code compare      *)
(* their keys as paths, component by component; the keys the model builds  *)
(* have no repeated or trailing separator and no "." component, so that    *)
(* two of them are the same path exactly when they are the same text.      *)
(***************************************************************************)
SEP == "/"
IsAbsolute(p) == Len(p) > 0 /\ p[1] = SEP

\* Utf8Path::new(dirname).join(basename): an absolute basename replaces the
\* directory, and a separator is added after a directory that lacks one
PathJoin(dirname, basename) ==
    IF IsAbsolute(basename) THEN basename
    ELSE IF Len(dirname) > 0 /\ dirname[Len(dirname)] # SEP
         THEN dirname \o <<SEP>> \o basename
         ELSE dirname \o basename

(***************************************************************************)
(* parse.rs: the tab-stream decoder.  A line is [kind, fields]: kind is    *)
(* the prefix token the line starts with ("PKG", "FILE", "CL"), "blank"    *)
(* for an empty line, "other" for any other text and "ioerr" for a line    *)
(* the reader fails on; fields is rest.split('\t') (for a changelog row,   *)
(* the one field is the whole rest).                                       *)
(***************************************************************************)
PKG_FIELDS == 11
\* a variant of FILE_FIELDS one field short
FILE_FIELDS_Short == 9 - 1
FILE_FIELDS == 9

\* parse_optional: the "(none)" sentinel is None
ParseOptional(s) == IF s = NONE_SENTINEL THEN None ELSE Some(s)

\* a variant of HeaderEpoch that takes the epoch 0 for no epoch
HeaderEpochZeroAbsent(name, s) ==
    IF IsNone(ParseOptional(s)) THEN [ok |-> TRUE, v |-> None]
    ELSE IF IsNone(ParseU32(s))
         THEN Fail(MkError("invalid epoch", NoLine, name, NoIndex, s))
         ELSE [ok |-> TRUE,
               v |-> IF Unwrap(ParseU32(s)) = 0 THEN None ELSE ParseU32(s)]
\* the epoch of a header: fields[3]
HeaderEpoch(name, s) ==
    IF IsNone(ParseOptional(s)) THEN [ok |-> TRUE, v |-> None]
    ELSE IF IsNone(ParseU32(s))
         THEN Fail(MkError("invalid epoch", NoLine, name, NoIndex, s))
         ELSE [ok |-> TRUE, v |-> ParseU32(s)]

\* the digest algorithm of a header: fields[10]
HeaderDigestAlgo(name, s) ==
    IF IsNone(ParseOptional(s)) THEN [ok |-> TRUE, v |-> None]
    ELSE IF IsNone(ParseU32(s))
         THEN Fail(MkError("invalid filedigestalgo", NoLine, name, NoIndex, s))
         ELSE IF IsNone(DigestAlgorithmTryFrom(Unwrap(ParseU32(s))))
              THEN Fail(MkError("unknown digest algorithm", NoLine, name, NoIndex,
                                Decimal(Unwrap(ParseU32(s)))))
              ELSE [ok |-> TRUE, v |-> DigestAlgorithmTryFrom(Unwrap(ParseU32(s)))]

\* parse_pkg_header: the checks in the order of the code (a TLA+ sequence
\* starts at 1: fields[k + 1] is the code's fields[k])
\* a variant of RequireArch that lets a package without architecture through
RequireArchDefaulting(name, arch) ==
    [ok |-> TRUE, v |-> IF IsNone(arch) THEN NONE_SENTINEL ELSE Unwrap(arch)]
\* arch.ok_or_else(|| anyhow!("{name}: missing arch"))?, in both decoders
RequireArch(name, arch) ==
    IF IsNone(arch) THEN Fail(MkError("missing arch", NoLine, name, NoIndex, ""))
    ELSE [ok |-> TRUE, v |-> Unwrap(arch)]

ParsePkgHeader(fields) ==
    LET name == fields[1]
        epoch == HeaderEpoch(name, fields[4])
        arch == RequireArch(name, ParseOptional(fields[5]))
        size == ParseU64(fields[7])
        buildtime == ParseU64(fields[8])
        installtime == ParseU64(fields[9])
        sourcerpm == ParseOptional(fields[10])
        digest_algo == HeaderDigestAlgo(name, fields[11])
    IN  IF ~epoch.ok THEN epoch
        ELSE IF ~arch.ok THEN arch
        ELSE IF IsNone(size)
             THEN Fail(MkError("invalid size", NoLine, name, NoIndex, fields[7]))
        ELSE IF IsNone(buildtime)
             THEN Fail(MkError("invalid buildtime", NoLine, name, NoIndex, fields[8]))
        ELSE IF IsNone(installtime)
             THEN Fail(MkError("invalid installtime", NoLine, name, NoIndex, fields[9]))
        ELSE IF ~digest_algo.ok THEN digest_algo
        ELSE [ok |-> TRUE,
              pkg |-> [name |-> name, version |-> fields[2], release |-> fields[3],
                       epoch |-> epoch.v, arch |-> arch.v,
                       license |-> fields[6], size |-> Unwrap(size),
                       buildtime |-> Unwrap(buildtime),
                       installtime |-> Unwrap(installtime),
                       sourcerpm |-> sourcerpm, digest_algo |-> digest_algo.v,
                       changelog_times |-> <<>>, files |-> EmptyMap]]

\* the digest of a file row: fields[4], the hex text or None
FileRowDigest(s) == IF s = "" THEN None ELSE Some(s)

\* the symlink target of a file row: fields[8]
FileRowLinkto(s) == IF s = "" THEN None ELSE Some(s)

\* parse_file_line: (path, info), or the first parse failure
ParseFileLine(fields) ==
    LET path == fields[1]
        size == ParseU64(fields[2])
        mode == ParseU16(fields[3])
        mtime == ParseU64(fields[4])
        flags == ParseU32(fields[6])
    IN  IF IsNone(size)
             THEN Fail(MkError("invalid filesize", NoLine, "", NoIndex, fields[2]))
        ELSE IF IsNone(mode)
             THEN Fail(MkError("invalid filemode", NoLine, "", NoIndex, fields[3]))
        ELSE IF IsNone(mtime)
             THEN Fail(MkError("invalid filemtime", NoLine, "", NoIndex, fields[4]))
        ELSE IF IsNone(flags)
             THEN Fail(MkError("invalid fileflags", NoLine, "", NoIndex, fields[6]))
        ELSE [ok |-> TRUE, path |-> path,
              info |-> [size |-> Unwrap(size), mode |-> Unwrap(mode),
                        mtime |-> Unwrap(mtime), digest |-> FileRowDigest(fields[5]),
                        flags |-> FromRaw(Unwrap(flags)), user |-> fields[7],
                        group |-> fields[8], linkto |-> FileRowLinkto(fields[9])]]

\* .with_context(..): the context adds the line number and the package name
WithContext(e, line, pkg) == [e EXCEPT !.line = line, !.pkg = pkg]

(***************************************************************************)
(* The end of a decode call.                                               *)
(***************************************************************************)
\* a variant of Bail that stops reading and returns the packages built so far
BailPartial(e, pkgs) == [status |-> "ok", result |-> Some(pkgs), error |-> None]
\* bail!(..) and `?`: the call returns Err(e) and the packages built so far
\* are dropped with the frame
Bail(e, pkgs) == [status |-> "err", result |-> None, error |-> Some(e)]

\* a variant of ReturnOk that takes an empty map for a failure
ReturnOkOrEmptyError(pkgs) ==
    IF pkgs = EmptyMap
    THEN [status |-> "err", result |-> None,
          error |-> Some(MkError("empty input", NoLine, "", NoIndex, ""))]
    ELSE [status |-> "ok", result |-> Some(pkgs), error |-> None]
\* Ok(packages)
ReturnOk(pkgs) == [status |-> "ok", result |-> Some(pkgs), error |-> None]

\* the frame of the call is gone once it has returned
Return(r) ==
    /\ status' = r.status
    /\ result' = r.result
    /\ error' = r.error
    /\ packages' = EmptyMap
    /\ current_pkg' = None
    /\ skip' = FALSE

\* a variant of Finalize that forgets the packages finalized before
FinalizeClearing(pkgs, cur) ==
    IF IsSome(cur) THEN (Unwrap(cur).name :> Unwrap(cur)) ELSE pkgs
\* a variant of Finalize that drops the open package
FinalizeDropping(pkgs, cur) == pkgs
\* a variant of Finalize that keys the entry by another field
FinalizeKeyedByVersion(pkgs, cur) ==
    IF IsSome(cur) THEN MapInsert(pkgs, Unwrap(cur).version, Unwrap(cur)) ELSE pkgs
\* if let Some(pkg) = current_pkg.take() { packages.insert(pkg.name.clone(), pkg) }
Finalize(pkgs, cur) ==
    IF IsSome(cur) THEN MapInsert(pkgs, Unwrap(cur).name, Unwrap(cur)) ELSE pkgs

(***************************************************************************)
(* The lines a tab stream is made of.                                      *)
(***************************************************************************)
Hdr(name, epoch, arch, algo) ==
    [kind |-> "PKG",
     fields |-> <<name, "1.0", "1.fc42", epoch, arch, "MIT", "100", "1000",
                  "2000", "foo.src.rpm", algo>>]
FileRow(path, size, mode, digest, flags, linkto) ==
    [kind |-> "FILE",
     fields |-> <<path, size, mode, "1000", digest, flags, "root", "root", linkto>>]
ClRow(time) == [kind |-> "CL", fields |-> <<time>>]

P_d == <<"/", "d">>
P_d_f == <<"/", "d", "/", "f">>
P_d_s == <<"/", "d", "/", "s">>
P_rel == <<"f">>

TabLines ==
    << Hdr("a", NONE_SENTINEL, "x86_64", "8"),
       Hdr("a", "2", "x86_64", "8"),
       Hdr("b", "0", "noarch", NONE_SENTINEL),
       Hdr(GPG, NONE_SENTINEL, NONE_SENTINEL, NONE_SENTINEL),
       [kind |-> "PKG", fields |-> <<"a", "1.0">>],
       [kind |-> "PKG", fields |-> <<GPG, "1.0", "1">>],
       Hdr("b", NONE_SENTINEL, NONE_SENTINEL, "8"),
       Hdr("a", NONE_SENTINEL, "x86_64", "4"),
       FileRow(P_d_f, "100", "33188", "ab", "0", ""),
       FileRow(P_d_f, "0", "33188", "", "64", ""),
       FileRow(P_d_s, "4", "41471", "", "0", "t"),
       FileRow(P_d, "0", "16877", "", "0", ""),
       FileRow(P_rel, "100", "33188", "ab", "89", "t"),
       FileRow(P_d_f, "100", "65536", "ab", "0", ""),
       [kind |-> "FILE", fields |-> <<P_d, "0">>],
       ClRow("3000"), ClRow("1000"), ClRow("bad"),
       [kind |-> "blank", fields |-> <<>>],
       [kind |-> "other", fields |-> <<>>],
       [kind |-> "ioerr", fields |-> <<>>] >>

(***************************************************************************)
(* parse.rs load_from_reader_impl: one action per branch of the loop body, *)
(* each reading one line.                                                  *)
(***************************************************************************)
TabReading == decoder = "tab" /\ status = "running" /\ Len(input) < MaxLines

\* line.context("reading line")?
TabIoError ==
    \E k \in 1..Len(TabLines) :
        LET l == TabLines[k] IN
        /\ TabReading
        /\ l.kind = "ioerr"
        /\ input' = Append(input, l)
        /\ Return(Bail(MkError("reading line", NoLine, "", NoIndex, ""), packages))
        /\ UNCHANGED <<decoder, flag_value, flag_result>>

\* if line.is_empty() { continue }
TabBlank ==
    \E k \in 1..Len(TabLines) :
        LET l == TabLines[k] IN
        /\ TabReading
        /\ l.kind = "blank"
        /\ input' = Append(input, l)
        /\ UNCHANGED <<decoder, status, packages, current_pkg, skip, result, error,
                       flag_value, flag_result>>

\* a variant of AfterTake that leaves the package open
AfterTakeKeeping(cur) == cur
\* current_pkg.take(): what is left in current_pkg
AfterTake(cur) == None

\* a variant of SkipAfterHeader that never enters the skip state
SkipAfterHeaderNever(name) == FALSE
\* the skip flag a header line leaves: skip = true for gpg-pubkey, else
\* skip = false
SkipAfterHeader(name) == name = GPG

\* a "@@PKG@@\t" line
TabHeaderOn(l) ==
        LET line_no == Len(input) + 1
            finalized == Finalize(packages, current_pkg)
            parsed == ParsePkgHeader(l.fields)
        IN
        /\ TabReading
        /\ l.kind = "PKG"
        /\ input' = Append(input, l)
        /\ IF Len(l.fields) # PKG_FIELDS
           THEN Return(Bail(FieldCountError("PKG field count", line_no, "", PKG_FIELDS,
                                            Len(l.fields)), finalized))
           ELSE IF l.fields[1] = GPG
           THEN /\ packages' = finalized
                /\ current_pkg' = AfterTake(current_pkg)
                /\ skip' = SkipAfterHeader(l.fields[1])
                /\ UNCHANGED <<status, result, error>>
           ELSE IF ~parsed.ok
           THEN Return(Bail(WithContext(parsed.err, line_no, parsed.err.pkg), finalized))
           ELSE /\ packages' = finalized
                /\ current_pkg' = Some(parsed.pkg)
                /\ skip' = SkipAfterHeader(l.fields[1])
                /\ UNCHANGED <<status, result, error>>
        /\ UNCHANGED <<decoder, flag_value, flag_result>>

TabHeader == \E k \in 1..Len(TabLines) : TabHeaderOn(TabLines[k])

\* else if skip { continue }
TabSkipped ==
    \E k \in 1..Len(TabLines) :
        LET l == TabLines[k] IN
        /\ TabReading
        /\ l.kind \in {"FILE", "CL", "other"}
        /\ skip
        /\ input' = Append(input, l)
        /\ UNCHANGED <<decoder, status, packages, current_pkg, skip, result, error,
                       flag_value, flag_result>>

\* a "@@FILE@@\t" line outside the skip state
TabFile ==
    \E k \in 1..Len(TabLines) :
        LET l == TabLines[k]
            line_no == Len(input) + 1
            parsed == ParseFileLine(l.fields)
        IN
        /\ TabReading
        /\ l.kind = "FILE"
        /\ ~skip
        /\ input' = Append(input, l)
        /\ IF IsNone(current_pkg)
           THEN Return(Bail(MkError("FILE line before any PKG", line_no, "", NoIndex, ""),
                            packages))
           ELSE IF Len(l.fields) # FILE_FIELDS
           THEN Return(Bail(FieldCountError("FILE field count", line_no,
                                            Unwrap(current_pkg).name, FILE_FIELDS,
                                            Len(l.fields)), packages))
           ELSE IF ~parsed.ok
           THEN Return(Bail(WithContext(parsed.err, line_no, Unwrap(current_pkg).name),
                            packages))
           ELSE /\ current_pkg' =
                      Some([Unwrap(current_pkg) EXCEPT
                               !.files = MapInsert(@, parsed.path, parsed.info)])
                /\ UNCHANGED <<status, packages, skip, result, error>>
        /\ UNCHANGED <<decoder, flag_value, flag_result>>

\* a variant of PushChangelog that keeps the times sorted and without duplicates
PushChangelogSortedSet(times, t) ==
    IF \E k \in 1..Len(times) : times[k] = t THEN times
    ELSE SelectSeq(times, LAMBDA x : x < t) \o <<t>> \o SelectSeq(times, LAMBDA x : x > t)
\* pkg.changelog_times.push(time)
PushChangelog(times, t) == Append(times, t)

\* a "@@CL@@\t" line outside the skip state
TabChangelog ==
    \E k \in 1..Len(TabLines) :
        LET l == TabLines[k]
            line_no == Len(input) + 1
            time == ParseU64(l.fields[1])
        IN
        /\ TabReading
        /\ l.kind = "CL"
        /\ ~skip
        /\ input' = Append(input, l)
        /\ IF IsNone(current_pkg)
           THEN Return(Bail(MkError("CL line before any PKG", line_no, "", NoIndex, ""),
                            packages))
           ELSE IF IsNone(time)
           THEN Return(Bail(MkError("invalid changelog time", line_no,
                                    Unwrap(current_pkg).name, NoIndex, l.fields[1]),
                            packages))
           ELSE /\ current_pkg' =
                      Some([Unwrap(current_pkg) EXCEPT
                               !.changelog_times = PushChangelog(@, Unwrap(time))])
                /\ UNCHANGED <<status, packages, skip, result, error>>
        /\ UNCHANGED <<decoder, flag_value, flag_result>>

\* any other line outside the skip state
TabUnexpected ==
    \E k \in 1..Len(TabLines) :
        LET l == TabLines[k] IN
        /\ TabReading
        /\ l.kind = "other"
        /\ ~skip
        /\ input' = Append(input, l)
        /\ Return(Bail(MkError("unexpected line format", Len(input) + 1, "", NoIndex, ""),
                       packages))
        /\ UNCHANGED <<decoder, flag_value, flag_result>>

\* the stream ends: the open package is finalized and the map returned
TabEof ==
    /\ decoder = "tab"
    /\ status = "running"
    /\ Return(ReturnOk(Finalize(packages, current_pkg)))
    /\ UNCHANGED <<decoder, input, flag_value, flag_result>>

(***************************************************************************)
(* raw.rs: the JSON decoder.  A value of the stream is [valid, obj]: text  *)
(* that is no JSON value has valid = FALSE; obj gives each field of the    *)
(* object as absent, null, one scalar or an array.                         *)
(***************************************************************************)
JAbsent == <<"absent">>
JNull == <<"null">>
JOne(v) == <<"one", v>>
JMany(vs) == <<"many", vs>>

\* a variant of DeserializeOneOrMany that keeps the first element of an array
DeserializeOneOrManyFirstOnly(jv) ==
    IF jv[1] = "one" THEN <<jv[2]>>
    ELSE IF jv[1] = "many" /\ Len(jv[2]) > 0 THEN <<jv[2][1]>>
    ELSE <<>>
\* deserialize_one_or_many (and #[serde(default)] for an absent field)
DeserializeOneOrMany(jv) ==
    IF jv[1] = "one" THEN <<jv[2]>>
    ELSE IF jv[1] = "many" THEN jv[2]
    ELSE <<>>

\* Option<T> with #[serde(default)]: absent and null are None
DeserializeOption(jv) ==
    IF jv[1] = "one" THEN Some(jv[2]) ELSE None

\* deserialize_none_string
DeserializeNoneString(jv) ==
    IF jv[1] = "one" /\ jv[2] # NONE_SENTINEL THEN Some(jv[2]) ELSE None

\* the fields serde requires: a scalar of the field's type
RequiredFields(obj) ==
    <<obj.Name, obj.Version, obj.Release, obj.License, obj.Size, obj.Buildtime,
      obj.Installtime>>

\* what serde accepts as a RawPackage
Deserializable(item) ==
    /\ item.valid
    /\ \A k \in 1..Len(RequiredFields(item.obj)) : RequiredFields(item.obj)[k][1] = "one"
    /\ item.obj.Sourcerpm[1] \in {"null", "one"}
    /\ item.obj.Epoch[1] # "many"
    /\ item.obj.Arch[1] # "many"
    /\ item.obj.Filedigestalgo[1] # "many"

\* #[derive(Deserialize)] struct RawPackage
DeserializeRawPackage(obj) ==
    [name |-> obj.Name[2], version |-> obj.Version[2], release |-> obj.Release[2],
     epoch |-> DeserializeOption(obj.Epoch), arch |-> DeserializeOption(obj.Arch),
     license |-> obj.License[2], size |-> obj.Size[2], buildtime |-> obj.Buildtime[2],
     installtime |-> obj.Installtime[2],
     sourcerpm |-> DeserializeNoneString(obj.Sourcerpm),
     basenames |-> DeserializeOneOrMany(obj.Basenames),
     dirnames |-> DeserializeOneOrMany(obj.Dirnames),
     dirindexes |-> DeserializeOneOrMany(obj.Dirindexes),
     filesizes |-> DeserializeOneOrMany(obj.Filesizes),
     filemodes |-> DeserializeOneOrMany(obj.Filemodes),
     filemtimes |-> DeserializeOneOrMany(obj.Filemtimes),
     filedigests |-> DeserializeOneOrMany(obj.Filedigests),
     fileflags |-> DeserializeOneOrMany(obj.Fileflags),
     fileusername |-> DeserializeOneOrMany(obj.Fileusername),
     filegroupname |-> DeserializeOneOrMany(obj.Filegroupname),
     filelinktos |-> DeserializeOneOrMany(obj.Filelinktos),
     filedigestalgo |-> DeserializeOption(obj.Filedigestalgo)]

(***************************************************************************)
(* raw.rs: the normalizer, TryFrom<RawPackage> for Package.  The code's    *)
(* file index i runs from 0; the sequences of the model start at 1, so the *)
(* code's v.get(i) is v[i + 1].                                            *)
(***************************************************************************)
\* v.get(i)
Get(v, i) == IF i + 1 \in 1..Len(v) THEN Some(v[i + 1]) ELSE None

\* the digest algorithm of the package
RawDigestAlgo(raw) ==
    IF IsNone(raw.filedigestalgo) THEN [ok |-> TRUE, v |-> None]
    ELSE IF IsNone(DigestAlgorithmTryFrom(Unwrap(raw.filedigestalgo)))
         THEN Fail(MkError("unknown digest algorithm", NoLine, raw.name, NoIndex,
                           Decimal(Unwrap(raw.filedigestalgo))))
         ELSE [ok |-> TRUE, v |-> DigestAlgorithmTryFrom(Unwrap(raw.filedigestalgo))]

\* a variant of DirnameOf that falls back to the root directory
DirnameOfDefaulting(raw, i) ==
    IF IsNone(Get(raw.dirindexes, i)) \/
       IsNone(Get(raw.dirnames, Unwrap(Get(raw.dirindexes, i))))
    THEN [ok |-> TRUE, v |-> <<SEP>>]
    ELSE [ok |-> TRUE, v |-> Unwrap(Get(raw.dirnames, Unwrap(Get(raw.dirindexes, i))))]
\* the directory of file i: its name, or the failure
DirnameOf(raw, i) ==
    IF IsNone(Get(raw.dirindexes, i))
    THEN Fail(MkError("missing dirindex", NoLine, raw.name, i, ""))
    ELSE IF IsNone(Get(raw.dirnames, Unwrap(Get(raw.dirindexes, i))))
         THEN Fail(MkError("dirindex out of bounds", NoLine, raw.name, i, ""))
         ELSE [ok |-> TRUE, v |-> Unwrap(Get(raw.dirnames, Unwrap(Get(raw.dirindexes, i))))]

\* the digest of a file: built only for a non-empty digest string, with the
\* algorithm the package declared
BuildDigest(digest_algo, filedigest) ==
    IF filedigest = "" THEN None
    ELSE IF IsSome(digest_algo)
         THEN Some([algorithm |-> Unwrap(digest_algo), hex |-> filedigest])
         ELSE None

\* a variant of BuildLinkto without the test for the empty string
BuildLinktoAlways(linkto) == Some(linkto)
\* the symlink target of a file
BuildLinkto(linkto) == IF linkto = "" THEN None ELSE Some(linkto)

\* the attribute arrays, in the order the loop body reads them
AttributeArrays(raw) ==
    << <<"filesize", raw.filesizes>>, <<"filemode", raw.filemodes>>,
       <<"filemtime", raw.filemtimes>>, <<"fileflags", raw.fileflags>>,
       <<"fileusername", raw.fileusername>>, <<"filegroupname", raw.filegroupname>>,
       <<"filedigest", raw.filedigests>>, <<"filelinkto", raw.filelinktos>> >>

\* the attribute arrays with no entry at i
MissingAttributes(raw, i) ==
    {k \in 1..Len(AttributeArrays(raw)) : IsNone(Get(AttributeArrays(raw)[k][2], i))}

Min(S) == CHOOSE x \in S : \A y \in S : x <= y

\* a variant of FileAt that takes zero or the empty string for a missing entry
FileAtDefaulting(raw, digest_algo, i) ==
    LET dir == DirnameOf(raw, i)
        OrElse(v, d) == IF IsSome(Get(v, i)) THEN Unwrap(Get(v, i)) ELSE d
    IN  IF ~dir.ok THEN dir
        ELSE [ok |-> TRUE,
              path |-> PathJoin(dir.v, raw.basenames[i + 1]),
              info |-> [size |-> OrElse(raw.filesizes, 0), mode |-> OrElse(raw.filemodes, 0),
                        mtime |-> OrElse(raw.filemtimes, 0),
                        digest |-> BuildDigest(digest_algo, OrElse(raw.filedigests, "")),
                        flags |-> FromRaw(OrElse(raw.fileflags, 0)),
                        user |-> OrElse(raw.fileusername, ""),
                        group |-> OrElse(raw.filegroupname, ""),
                        linkto |-> BuildLinkto(OrElse(raw.filelinktos, ""))]]
\* one iteration of the loop: (path, info) of file i, or the first failure
FileAt(raw, digest_algo, i) ==
    LET dir == DirnameOf(raw, i)
        missing == MissingAttributes(raw, i)
    IN  IF ~dir.ok THEN dir
        ELSE IF missing # {}
        THEN Fail(MkError("missing attribute", NoLine, raw.name, i,
                          AttributeArrays(raw)[Min(missing)][1]))
        ELSE [ok |-> TRUE,
              path |-> PathJoin(dir.v, raw.basenames[i + 1]),
              info |-> [size |-> raw.filesizes[i + 1], mode |-> raw.filemodes[i + 1],
                        mtime |-> raw.filemtimes[i + 1],
                        digest |-> BuildDigest(digest_algo, raw.filedigests[i + 1]),
                        flags |-> FromRaw(raw.fileflags[i + 1]),
                        user |-> raw.fileusername[i + 1],
                        group |-> raw.filegroupname[i + 1],
                        linkto |-> BuildLinkto(raw.filelinktos[i + 1])]]

RECURSIVE BuildFilesWithDirs(_, _, _, _)
\* a variant of BuildFiles that also enters the directory of every file
BuildFilesWithDirs(raw, digest_algo, i, files) ==
    IF i >= Len(raw.basenames) THEN [ok |-> TRUE, files |-> files]
    ELSE LET f == FileAt(raw, digest_algo, i)
             dir == DirnameOf(raw, i)
         IN  IF ~f.ok THEN f
             ELSE BuildFilesWithDirs(raw, digest_algo, i + 1,
                      MapInsert(MapInsert(files, dir.v, f.info), f.path, f.info))

RECURSIVE BuildFilesSameLength(_, _, _, _)
\* a variant of BuildFiles that rejects a record with an array longer than
\* its basenames
BuildFilesSameLength(raw, digest_algo, i, files) ==
    IF \/ Len(raw.dirindexes) > Len(raw.basenames)
       \/ \E k \in 1..Len(AttributeArrays(raw)) :
              Len(AttributeArrays(raw)[k][2]) > Len(raw.basenames)
    THEN Fail(MkError("length mismatch", NoLine, raw.name, NoIndex, ""))
    ELSE IF i >= Len(raw.basenames) THEN [ok |-> TRUE, files |-> files]
    ELSE LET f == FileAt(raw, digest_algo, i)
         IN  IF ~f.ok THEN f
             ELSE BuildFilesSameLength(raw, digest_algo, i + 1,
                                       MapInsert(files, f.path, f.info))

RECURSIVE BuildFiles(_, _, _, _)
\* for i in 0..raw.basenames.len(): the files map, or the first failure
BuildFiles(raw, digest_algo, i, files) ==
    IF i >= Len(raw.basenames) THEN [ok |-> TRUE, files |-> files]
    ELSE LET f == FileAt(raw, digest_algo, i)
         IN  IF ~f.ok THEN f
             ELSE BuildFiles(raw, digest_algo, i + 1, MapInsert(files, f.path, f.info))

\* try_from: the algorithm, then the files, then the architecture
TryFromRaw(raw) ==
    LET digest_algo == RawDigestAlgo(raw)
        built == BuildFiles(raw, digest_algo.v, 0, EmptyMap)
        arch == RequireArch(raw.name, raw.arch)
    IN  IF ~digest_algo.ok THEN digest_algo
        ELSE IF ~built.ok THEN built
        ELSE IF ~arch.ok THEN arch
        ELSE [ok |-> TRUE,
              pkg |-> [name |-> raw.name, version |-> raw.version,
                       release |-> raw.release, epoch |-> raw.epoch,
                       arch |-> arch.v, license |-> raw.license,
                       size |-> raw.size, buildtime |-> raw.buildtime,
                       installtime |-> raw.installtime, sourcerpm |-> raw.sourcerpm,
                       files |-> built.files]]

(***************************************************************************)
(* The JSON values a stream is made of.                                    *)
(***************************************************************************)
D_root == <<"/">>
D_d == <<"/", "d", "/">>
D_d_nosep == <<"/", "d">>
D_rel == <<"d", "/">>
B_d == <<"d">>
B_f == <<"f">>
B_s == <<"s">>
B_abs == <<"/", "f">>

Repeat(v, n) == [k \in 1..n |-> v]

\* the per-file fields of a package, every one an array
FileArrays(bases, dirs, idxs, digests, flags, linktos) ==
    [Basenames |-> JMany(bases), Dirnames |-> JMany(dirs), Dirindexes |-> JMany(idxs),
     Filesizes |-> JMany(Repeat(100, Len(bases))),
     Filemodes |-> JMany(Repeat(33188, Len(bases))),
     Filemtimes |-> JMany(Repeat(1000, Len(bases))),
     Filedigests |-> JMany(digests), Fileflags |-> JMany(flags),
     Fileusername |-> JMany(Repeat("root", Len(bases))),
     Filegroupname |-> JMany(Repeat("root", Len(bases))),
     Filelinktos |-> JMany(linktos)]

\* the per-file fields of a package with one file, every one a bare scalar
FileScalars(base, dir, digest, flags, linkto) ==
    [Basenames |-> JOne(base), Dirnames |-> JOne(dir), Dirindexes |-> JOne(0),
     Filesizes |-> JOne(100), Filemodes |-> JOne(33188), Filemtimes |-> JOne(1000),
     Filedigests |-> JOne(digest), Fileflags |-> JOne(flags),
     Fileusername |-> JOne("root"), Filegroupname |-> JOne("root"),
     Filelinktos |-> JOne(linkto)]

NoFiles ==
    [Basenames |-> JAbsent, Dirnames |-> JAbsent, Dirindexes |-> JAbsent,
     Filesizes |-> JAbsent, Filemodes |-> JAbsent, Filemtimes |-> JAbsent,
     Filedigests |-> JAbsent, Fileflags |-> JAbsent, Fileusername |-> JAbsent,
     Filegroupname |-> JAbsent, Filelinktos |-> JAbsent]

Obj(name, epoch, arch, algo, f) ==
    [valid |-> TRUE,
     obj |-> [Name |-> JOne(name), Version |-> JOne("1.0"), Release |-> JOne("1.fc42"),
              Epoch |-> epoch, Arch |-> arch, License |-> JOne("MIT"),
              Size |-> JOne(100), Buildtime |-> JOne(1000), Installtime |-> JOne(2000),
              Sourcerpm |-> JOne("foo.src.rpm"), Filedigestalgo |-> algo]
             @@ f]

OneFile == FileScalars(B_f, D_d, "ab", 0, "")
Symlink == FileScalars(B_s, D_d, "", 0, "t")
DirAndFile == FileArrays(<<B_d, B_f>>, <<D_root, D_d>>, <<0, 1>>, <<"", "ab">>,
                         <<0, 64>>, <<"", "">>)
SamePathTwice == FileArrays(<<B_f, B_f>>, <<D_d>>, <<0, 0>>, <<"ab", "">>,
                            <<0, 89>>, <<"", "t">>)
OddPaths == FileArrays(<<B_f, B_abs, B_f>>, <<D_d_nosep, D_d, D_rel>>, <<0, 1, 2>>,
                       <<"ab", "", "">>, <<0, 0, 0>>, <<"", "", "t">>)

JsonItems ==
    << [valid |-> FALSE],
       Obj("a", JAbsent, JOne("x86_64"), JOne(8), OneFile),
       Obj("a", JOne(2), JOne("x86_64"), JOne(8), NoFiles),
       Obj("b", JOne(0), JOne("noarch"), JAbsent, DirAndFile),
       Obj("b", JNull, JOne("x86_64"), JOne(8), Symlink),
       Obj(GPG, JAbsent, JAbsent, JAbsent, NoFiles),
       Obj(GPG, JAbsent, JOne("x86_64"), JOne(8), OneFile),
       Obj("a", JAbsent, JAbsent, JOne(8), OneFile),
       Obj("a", JAbsent, JOne("x86_64"), JOne(4), OneFile),
       Obj("b", JAbsent, JOne("x86_64"), JOne(8),
           [OneFile EXCEPT !.Dirindexes = JAbsent]),
       Obj("b", JAbsent, JOne("x86_64"), JOne(8),
           [DirAndFile EXCEPT !.Dirindexes = JOne(0)]),
       Obj("b", JAbsent, JOne("x86_64"), JOne(8),
           [DirAndFile EXCEPT !.Dirindexes = JMany(<<0, 2>>)]),
       Obj("b", JAbsent, JOne("x86_64"), JOne(4),
           [OneFile EXCEPT !.Dirindexes = JOne(1)]),
       Obj("a", JAbsent, JOne("x86_64"), JOne(8),
           [DirAndFile EXCEPT !.Filemodes = JOne(33188)]),
       Obj("a", JAbsent, JOne("x86_64"), JOne(8),
           [DirAndFile EXCEPT !.Filemodes = JAbsent, !.Dirindexes = JMany(<<0, 5>>)]),
       Obj("a", JAbsent, JOne("x86_64"), JOne(8), SamePathTwice),
       Obj("a", JAbsent, JOne("x86_64"), JOne(8),
           [DirAndFile EXCEPT !.Basenames = JAbsent]),
       Obj("a", JAbsent, JOne("x86_64"), JOne(8), OddPaths),
       [Obj("a", JAbsent, JOne("x86_64"), JOne(8), NoFiles)
           EXCEPT !.obj.Sourcerpm = JAbsent] >>

(***************************************************************************)
(* raw.rs load_from_reader_impl: one action per outcome of the loop body,  *)
(* each reading one JSON value.                                            *)
(***************************************************************************)
JsonReading == decoder = "json" /\ status = "running" /\ Len(input) < MaxObjects

\* result.context("parsing JSON")?
JsonInvalid ==
    \E k \in 1..Len(JsonItems) :
        LET item == JsonItems[k] IN
        /\ JsonReading
        /\ ~Deserializable(item)
        /\ input' = Append(input, item)
        /\ Return(Bail(MkError("parsing JSON", NoLine, "", NoIndex, ""), packages))
        /\ UNCHANGED <<decoder, flag_value, flag_result>>

\* a variant of IsGpgPubkey that filters nothing
IsGpgPubkeyNever(raw) == FALSE
\* if raw.name == "gpg-pubkey" { continue }
IsGpgPubkey(raw) == raw.name = GPG

JsonSkippedOn(item) ==
        /\ JsonReading
        /\ Deserializable(item)
        /\ IsGpgPubkey(DeserializeRawPackage(item.obj))
        /\ input' = Append(input, item)
        /\ UNCHANGED <<decoder, status, packages, current_pkg, skip, result, error,
                       flag_value, flag_result>>

JsonSkipped == \E k \in 1..Len(JsonItems) : JsonSkippedOn(JsonItems[k])

\* Package::try_from(raw).context("converting raw package")?, then the insert
JsonPackageOn(item) ==
        LET raw == DeserializeRawPackage(item.obj)
            converted == TryFromRaw(raw)
        IN
        /\ JsonReading
        /\ Deserializable(item)
        /\ ~IsGpgPubkey(raw)
        /\ input' = Append(input, item)
        /\ IF ~converted.ok
           THEN Return(Bail(converted.err, packages))
           ELSE /\ packages' = MapInsert(packages, converted.pkg.name, converted.pkg)
                /\ UNCHANGED <<status, current_pkg, skip, result, error>>
        /\ UNCHANGED <<decoder, flag_value, flag_result>>

JsonPackage == \E k \in 1..Len(JsonItems) : JsonPackageOn(JsonItems[k])

\* the stream ends: Ok(packages)
JsonEof ==
    /\ decoder = "json"
    /\ status = "running"
    /\ Return(ReturnOk(packages))
    /\ UNCHANGED <<decoder, input, flag_value, flag_result>>

(***************************************************************************)
(* The decode call.                                                        *)
(***************************************************************************)
Init ==
    /\ decoder \in {"json", "tab"}
    /\ input = <<>>
    /\ status = "running"
    /\ packages = EmptyMap
    /\ current_pkg = None
    /\ skip = FALSE
    /\ result = None
    /\ error = None
    /\ flag_value = 0
    /\ flag_result = None

Next ==
    \/ TabIoError
    \/ TabBlank
    \/ TabHeader
    \/ TabSkipped
    \/ TabFile
    \/ TabChangelog
    \/ TabUnexpected
    \/ TabEof
    \/ JsonInvalid
    \/ JsonSkipped
    \/ JsonPackage
    \/ JsonEof

Spec == Init /\ [][Next]_vars

(***************************************************************************)
(* FileFlags as a pure function: a raw value is drawn, from_raw is applied.*)
(***************************************************************************)
FlagValues == 0..(2^MaxFlagBits - 1)

InitFlags ==
    /\ decoder = "none"
    /\ input = <<>>
    /\ status = "idle"
    /\ packages = EmptyMap
    /\ current_pkg = None
    /\ skip = FALSE
    /\ result = None
    /\ error = None
    /\ flag_value \in FlagValues
    /\ flag_result = None

FlagsFromRaw ==
    /\ status = "idle"
    /\ flag_result = None
    /\ flag_result' = Some(FromRaw(flag_value))
    /\ UNCHANGED <<decoder, input, status, packages, current_pkg, skip, result, error,
                   flag_value>>

NextFlags == FlagsFromRaw

SpecFlags == InitFlags /\ [][NextFlags]_vars

(***************************************************************************)
(* The decode call on records that declare any digest algorithm code: the  *)
(* same handlers, reading headers and JSON records that differ in their    *)
(* name and their filedigestalgo.                                          *)
(***************************************************************************)
AlgoCodes == 0..MaxAlgoCode
AlgoNames == {"a", GPG}

AlgoHeader ==
    \E v \in AlgoCodes, n \in AlgoNames :
        /\ Len(input) < MaxAlgoRecords
        /\ TabHeaderOn(Hdr(n, NONE_SENTINEL, "x86_64", Decimal(v)))

AlgoRecord ==
    \E v \in AlgoCodes, n \in AlgoNames :
        LET item == Obj(n, JAbsent, JOne("x86_64"), JOne(v), OneFile) IN
        /\ Len(input) < MaxAlgoRecords
        /\ (JsonSkippedOn(item) \/ JsonPackageOn(item))

NextAlgo ==
    \/ AlgoHeader
    \/ AlgoRecord
    \/ TabEof
    \/ JsonEof

SpecAlgo == Init /\ [][NextAlgo]_vars

(***************************************************************************)
(* The JSON decode call on one record whose per-file fields take any       *)
(* shape: the record of two files DirAndFile, with two of its fields       *)
(* replaced by an absent field, a bare scalar or an array of any length.   *)
(***************************************************************************)
\* the per-file fields of RawPackage, and the elements an array of each holds
FieldNames ==
    <<"Basenames", "Dirnames", "Dirindexes", "Filesizes", "Filemodes", "Filemtimes",
      "Filedigests", "Fileflags", "Fileusername", "Filegroupname", "Filelinktos">>
FieldElements ==
    [Basenames |-> <<B_d, B_f, B_s, B_abs>>,
     Dirnames |-> <<D_root, D_d, D_d_nosep, D_rel>>,
     Dirindexes |-> <<0, 1, 1, 0>>,
     Filesizes |-> <<0, 100, 4, 1000>>,
     Filemodes |-> <<16877, 33188, 41471, 33188>>,
     Filemtimes |-> <<1000, 2000, 3000, 1000>>,
     Filedigests |-> <<"", "ab", "", "cd">>,
     Fileflags |-> <<0, 64, 89, 0>>,
     Fileusername |-> <<"root", "u", "root", "u">>,
     Filegroupname |-> <<"root", "g", "root", "g">>,
     Filelinktos |-> <<"", "", "t", "">>]

FieldShapes == {<<"absent">>, <<"one">>} \cup {<<"many", n>> : n \in 0..MaxArrayLen}
Shaped(name, shape) ==
    IF shape[1] = "absent" THEN JAbsent
    ELSE IF shape[1] = "one" THEN JOne(FieldElements[name][1])
    ELSE JMany(SubSeq(FieldElements[name], 1, shape[2]))

\* the record of two files, with the fields f1 and f2 in the shapes s1 and s2
ShapedFiles(f1, s1, f2, s2) ==
    [name \in DOMAIN DirAndFile |->
        IF name = f2 THEN Shaped(f2, s2)
        ELSE IF name = f1 THEN Shaped(f1, s1)
        ELSE JMany(SubSeq(FieldElements[name], 1, 2))]

FieldsRecord ==
    \E k1 \in 1..Len(FieldNames), k2 \in 1..Len(FieldNames) :
        \E s1 \in FieldShapes, s2 \in FieldShapes :
            /\ input = <<>>
            /\ JsonPackageOn(Obj("a", JAbsent, JOne("x86_64"), JOne(8),
                                 ShapedFiles(FieldNames[k1], s1, FieldNames[k2], s2)))

InitFields == Init /\ decoder = "json"

NextFields ==
    \/ FieldsRecord
    \/ JsonEof

SpecFields == InitFields /\ [][NextFields]_vars

(***************************************************************************)
(* What the properties say about the input read so far.                    *)
(***************************************************************************)
Max(S) == CHOOSE x \in S : \A y \in S : x >= y
HasLast == Len(input) > 0
Last == input[Len(input)]

\* tab stream: the header lines before line i, and whether line i lies in the
\* rows that follow a gpg-pubkey header
HeadersBefore(i) == {j \in 1..(i - 1) : input[j].kind = "PKG"}
InSkippedRows(i) ==
    /\ HeadersBefore(i) # {}
    /\ input[Max(HeadersBefore(i))].fields[1] = GPG

\* tab stream: line i is one the decoder must reject: a line that cannot be
\* read, a header with the wrong field count or fields that do not parse, and,
\* outside the rows of a gpg-pubkey header, a row before any header, a file
\* row with the wrong field count or fields that do not parse, a changelog
\* row that is no number, and any other text
TabFaulty(i) ==
    LET l == input[i] IN
    \/ l.kind = "ioerr"
    \/ /\ l.kind = "PKG"
       /\ \/ Len(l.fields) # 11
          \/ l.fields[1] # GPG /\ ~ParsePkgHeader(l.fields).ok
    \/ /\ l.kind \in {"FILE", "CL", "other"}
       /\ ~InSkippedRows(i)
       /\ \/ l.kind = "other"
          \/ HeadersBefore(i) = {}
          \/ l.kind = "FILE" /\ (Len(l.fields) # 9 \/ ~ParseFileLine(l.fields).ok)
          \/ l.kind = "CL" /\ l.fields[1] \notin DOMAIN NumLit

\* JSON stream: value i is one the decoder must reject
JsonFaulty(i) ==
    \/ ~Deserializable(input[i])
    \/ /\ DeserializeRawPackage(input[i].obj).name # GPG
       /\ ~TryFromRaw(DeserializeRawPackage(input[i].obj)).ok

\* the last thing read was a file row that went into the open package
TabFileRowInserted ==
    /\ decoder = "tab" /\ status = "running" /\ HasLast
    /\ Last.kind = "FILE" /\ ~skip

\* the last thing read was a header that opened a package
TabHeaderOpened ==
    /\ decoder = "tab" /\ status = "running" /\ HasLast
    /\ Last.kind = "PKG" /\ ~skip

\* the last thing read was a JSON record that was converted and inserted
JsonRecordInserted ==
    /\ decoder = "json" /\ status = "running" /\ HasLast
    /\ DeserializeRawPackage(Last.obj).name # GPG

\* the last thing read was a JSON record that went to the normalizer
JsonRecordConverted ==
    /\ decoder = "json" /\ HasLast
    /\ Deserializable(Last)
    /\ DeserializeRawPackage(Last.obj).name # GPG

LastRaw == DeserializeRawPackage(Last.obj)

\* the path the raw record gives file i (from 0), and the indices that are the
\* last to give their path
RawPath(raw, i) == PathJoin(raw.dirnames[raw.dirindexes[i + 1] + 1], raw.basenames[i + 1])
RawIndices(raw) == 0..(Len(raw.basenames) - 1)
LastWithItsPath(raw, i) ==
    \A j \in RawIndices(raw) : j > i => RawPath(raw, j) # RawPath(raw, i)

(***************************************************************************)
(* C1: fail-fast, whole-call abort.  Under either decoder, once a line or  *)
(* JSON value that the decoder must reject has been read (a header or a    *)
(* file row with the wrong field count, a line that does not parse, text   *)
(* that is no JSON record, a record the normalizer fails on), the call has *)
(* returned an error and no package map, whatever well-formed lines or     *)
(* values came before it.  Rows after a gpg-pubkey header are discarded    *)
(* unread and are not faults.                                              *)
(***************************************************************************)
C1_FailFast ==
    \A i \in 1..Len(input) :
        ((decoder = "tab" /\ TabFaulty(i)) \/ (decoder = "json" /\ JsonFaulty(i)))
            => status = "err" /\ result = None /\ IsSome(error)

\* two packages were read before a file row with the wrong field count
C1_Witness ==
    /\ decoder = "tab" /\ status = "err" /\ Len(input) = 4
    /\ input[1].kind = "PKG" /\ input[1].fields[1] = "a"
    /\ input[2].kind = "FILE" /\ Len(input[2].fields) = 9
    /\ input[3].kind = "PKG" /\ input[3].fields[1] = "b"
    /\ input[4].kind = "FILE" /\ Len(input[4].fields) = 2
    /\ result = None

(***************************************************************************)
(* C2: no entry of a successful result, under either decoder, has the key  *)
(* "gpg-pubkey" or holds a Package named "gpg-pubkey".                     *)
(***************************************************************************)
C2_NoGpgPubkey ==
    status = "ok" =>
        \A n \in DOMAIN Unwrap(result) :
            n # GPG /\ Unwrap(result)[n].name # GPG

\* a record named gpg-pubkey was read in a call that returned packages
C2_Witness ==
    /\ decoder = "json" /\ status = "ok"
    /\ \E i \in 1..Len(input) : input[i].obj.Name = JOne(GPG) /\ input[i].obj.Arch # JAbsent
    /\ DOMAIN Unwrap(result) # {}

(***************************************************************************)
(* C3: every key of the package map equals the name of the Package stored  *)
(* under it: in the map being built after every insertion, and in every    *)
(* successful result of either decoder.                                    *)
(***************************************************************************)
C3_KeyIsName ==
    /\ \A n \in DOMAIN packages : packages[n].name = n
    /\ status = "ok" => \A n \in DOMAIN Unwrap(result) : Unwrap(result)[n].name = n

\* a result with two entries, under the tab decoder (one header-triggered and
\* one end-of-stream insertion)
C3_Witness ==
    /\ decoder = "tab" /\ status = "ok"
    /\ DOMAIN Unwrap(result) = {"a", "b"}

(***************************************************************************)
(* C4: digest materialization under either decoder: the digest of a file   *)
(* is present exactly when its raw digest string is non-empty and the      *)
(* package declared a digest algorithm, and a present digest carries that  *)
(* algorithm.                                                              *)
(***************************************************************************)
C4_TabDigest ==
    TabFileRowInserted =>
        LET pkg == Unwrap(current_pkg)
            info == pkg.files[Last.fields[1]]
        IN  IsSome(info.digest) <=> (Last.fields[5] # "" /\ IsSome(pkg.digest_algo))

C4_JsonDigest ==
    JsonRecordInserted =>
        \A i \in RawIndices(LastRaw) :
            LastWithItsPath(LastRaw, i) =>
                LET info == packages[LastRaw.name].files[RawPath(LastRaw, i)]
                IN  /\ IsSome(info.digest) <=>
                           (LastRaw.filedigests[i + 1] # "" /\ IsSome(LastRaw.filedigestalgo))
                    /\ IsSome(info.digest) =>
                           Unwrap(info.digest).algorithm =
                               DigestAlgorithmCodes[Unwrap(LastRaw.filedigestalgo)]

C4_DigestMaterialization == C4_TabDigest /\ C4_JsonDigest

(***************************************************************************)
(* C5: the epoch is three-state.  The "(none)" sentinel of a header, and a *)
(* missing or null Epoch field of a JSON record, decode to an absent       *)
(* epoch; the literal 0 decodes to an explicit epoch of zero, which is not *)
(* the absent epoch; any other number n decodes to the explicit epoch n.   *)
(***************************************************************************)
C5_EpochThreeState ==
    /\ TabHeaderOpened =>
           LET e == Last.fields[4]
               epoch == Unwrap(current_pkg).epoch
           IN  /\ e = "(none)" => epoch = None
               /\ e = "0" => epoch = Some(0) /\ epoch # None
               /\ e = "2" => epoch = Some(2)
    /\ JsonRecordInserted =>
           LET e == Last.obj.Epoch
               epoch == packages[LastRaw.name].epoch
           IN  /\ e \in {JAbsent, JNull} => epoch = None
               /\ e = JOne(0) => epoch = Some(0) /\ epoch # None
               /\ e = JOne(2) => epoch = Some(2)

\* a header with the literal epoch 0 has opened a package
C5_Witness ==
    /\ TabHeaderOpened
    /\ Last.fields[4] = "0"
    /\ Unwrap(current_pkg).epoch = Some(0)

(***************************************************************************)
(* C6: a decode call that ends having read nothing (zero bytes of input)   *)
(* succeeds, under either decoder, with an empty package map.              *)
(***************************************************************************)
C6_EmptyInput ==
    (status # "running" /\ input = <<>>) =>
        status = "ok" /\ result = Some(EmptyMap) /\ error = None

\* the call has ended on an empty input
C6_Witness == status = "ok" /\ input = <<>>

(***************************************************************************)
(* C7: in the normalizer, a file index below the file count whose          *)
(* directory-index entry is missing, or is no valid index into the         *)
(* directory table, makes the conversion fail: the call returns an error   *)
(* that names the package and no package map, so no path is built from a   *)
(* default directory.  The conversion stops at the first fault it meets,   *)
(* so the error names the file index i when it is the directory index of   *)
(* file i that stops it (the algorithm code resolved and no attribute is   *)
(* missing at a smaller index).                                            *)
(***************************************************************************)
BadDirindex(raw, i) ==
    \/ i >= Len(raw.dirindexes)
    \/ raw.dirindexes[i + 1] >= Len(raw.dirnames)

AlgoResolves(raw) ==
    IsNone(raw.filedigestalgo) \/ Unwrap(raw.filedigestalgo) \in DOMAIN DigestAlgorithmCodes

C7_DirindexFails ==
    JsonRecordConverted =>
        LET raw == LastRaw
            bad == {i \in RawIndices(raw) : BadDirindex(raw, i)}
        IN  bad # {} =>
              /\ status = "err" /\ result = None /\ IsSome(error)
              /\ Unwrap(error).pkg = raw.name
              /\ (AlgoResolves(raw) /\
                  \A j \in 0..(Min(bad) - 1) : MissingAttributes(raw, j) = {})
                   => /\ Unwrap(error).index = Min(bad)
                      /\ Unwrap(error).kind =
                            IF Min(bad) >= Len(raw.dirindexes)
                            THEN "missing dirindex" ELSE "dirindex out of bounds"

\* the second file of a record has a directory index beyond the table
C7_Witness ==
    /\ JsonRecordConverted
    /\ status = "err"
    /\ Unwrap(error).kind = "dirindex out of bounds"
    /\ Unwrap(error).index = 1
    /\ ~BadDirindex(LastRaw, 0)

(***************************************************************************)
(* C8: under either decoder the symlink target of a file is present        *)
(* exactly when its raw target string is non-empty, and is then that       *)
(* string, whatever the digest: a file with an empty digest string and a   *)
(* non-empty target has no digest and that target.                         *)
(***************************************************************************)
LinktoAsRaw(info, digest, target) ==
    /\ IsSome(info.linkto) <=> target # ""
    /\ IsSome(info.linkto) => Unwrap(info.linkto) = target
    /\ (digest = "" /\ target # "") => info.digest = None /\ info.linkto = Some(target)

C8_SymlinkTarget ==
    /\ TabFileRowInserted =>
           LinktoAsRaw(Unwrap(current_pkg).files[Last.fields[1]],
                       Last.fields[5], Last.fields[9])
    /\ JsonRecordInserted =>
           \A i \in RawIndices(LastRaw) :
               LastWithItsPath(LastRaw, i) =>
                   LinktoAsRaw(packages[LastRaw.name].files[RawPath(LastRaw, i)],
                               LastRaw.filedigests[i + 1], LastRaw.filelinktos[i + 1])

\* a JSON record with a symlink (empty digest, target "t") was inserted
C8_Witness ==
    /\ JsonRecordInserted
    /\ Len(LastRaw.basenames) = 1
    /\ LastRaw.filedigests = <<"">> /\ LastRaw.filelinktos = <<"t">>
    /\ packages[LastRaw.name].files[RawPath(LastRaw, 0)].linkto = Some("t")
    /\ packages[LastRaw.name].files[RawPath(LastRaw, 0)].digest = None

(***************************************************************************)
(* C9: for every raw value v, from_raw(v) succeeds, raw() gives v back     *)
(* unchanged, and each named predicate is true exactly when its own bit    *)
(* of v is set: config 0, doc 1, missingok 3, noreplace 4, ghost 6,        *)
(* license 7, readme 8, artifact 12.  64 is ghost alone; 89 is ghost,      *)
(* config, missingok and noreplace.                                        *)
(***************************************************************************)
BitSet(v, k) == (v \div (2^k)) % 2 = 1

NamedPredicates(f) ==
    <<IsConfig(f), IsDoc(f), IsMissingok(f), IsNoreplace(f), IsGhost(f), IsLicense(f),
      IsReadme(f), IsArtifact(f)>>

C9_FlagBits ==
    IsSome(flag_result) =>
        LET f == Unwrap(flag_result)
            v == flag_value
        IN  /\ Raw(f) = v
            /\ NamedPredicates(f) =
                  <<BitSet(v, 0), BitSet(v, 1), BitSet(v, 3), BitSet(v, 4), BitSet(v, 6),
                    BitSet(v, 7), BitSet(v, 8), BitSet(v, 12)>>
            /\ v = 64 => NamedPredicates(f) =
                  <<FALSE, FALSE, FALSE, FALSE, TRUE, FALSE, FALSE, FALSE>>
            /\ v = 89 => NamedPredicates(f) =
                  <<TRUE, FALSE, TRUE, TRUE, TRUE, FALSE, FALSE, FALSE>>

\* from_raw was applied to a value with named and unnamed bits set
C9_Witness ==
    /\ IsSome(flag_result)
    /\ flag_value = 89 + 2^2 + 2^5
    /\ Raw(Unwrap(flag_result)) = flag_value
    /\ IsMissingok(Unwrap(flag_result))

(***************************************************************************)
(* C10: ownership isolation.  In a successful result the file map of a     *)
(* package holds exactly the paths its own file records declare (the       *)
(* records of the header block or JSON record the entry was built from),   *)
(* and none that only another package declares, also when that other       *)
(* package declares the parent directory or stands next to it in the       *)
(* stream.                                                                 *)
(***************************************************************************)
TabDeclared(n) ==
    LET h == Max({j \in 1..Len(input) : input[j].kind = "PKG" /\ input[j].fields[1] = n})
    IN  {input[j].fields[1] :
            j \in {j \in (h + 1)..Len(input) :
                      input[j].kind = "FILE" /\ Max(HeadersBefore(j)) = h}}

JsonDeclared(n) ==
    LET r == Max({j \in 1..Len(input) : DeserializeRawPackage(input[j].obj).name = n})
        raw == DeserializeRawPackage(input[r].obj)
    IN  {RawPath(raw, i) : i \in RawIndices(raw)}

C10_OwnershipIsolation ==
    status = "ok" =>
        \A n \in DOMAIN Unwrap(result) :
            DOMAIN Unwrap(result)[n].files =
                IF decoder = "tab" THEN TabDeclared(n) ELSE JsonDeclared(n)

\* package a owns /d/f, and package b, next in the stream, owns its parent
\* directory /d
C10_Witness ==
    /\ decoder = "tab" /\ status = "ok"
    /\ DOMAIN Unwrap(result) = {"a", "b"}
    /\ DOMAIN Unwrap(result)["a"].files = {P_d_f}
    /\ DOMAIN Unwrap(result)["b"].files = {P_d}

(***************************************************************************)
(* C11: decoder equivalence.  A tab stream of one header and one file row  *)
(* and the JSON stream of the one record with the same logical content     *)
(* (name, version, release, epoch, arch, file path, size, mode, mtime,     *)
(* digest, flags, owner, target) decode to structurally equal package      *)
(* maps: the Package the tab decoder returns equals the Package the JSON   *)
(* decoder returns.                                                        *)
(***************************************************************************)
\* the directory (with its trailing separator) and the basename of an
\* absolute path
LastSep(p) == Max({k \in 1..Len(p) : p[k] = SEP})
Dirname(p) == SubSeq(p, 1, LastSep(p))
Basename(p) == SubSeq(p, LastSep(p) + 1, Len(p))

\* a number field of the tab stream as the JSON field of the same content
JNumber(s) == IF s = NONE_SENTINEL THEN JAbsent ELSE JOne(NumLit[s])

\* the JSON record with the logical content of header h and file row f
TabAsJson(h, f) ==
    [valid |-> TRUE,
     obj |-> [Name |-> JOne(h[1]), Version |-> JOne(h[2]), Release |-> JOne(h[3]),
              Epoch |-> JNumber(h[4]),
              Arch |-> IF h[5] = NONE_SENTINEL THEN JAbsent ELSE JOne(h[5]),
              License |-> JOne(h[6]), Size |-> JNumber(h[7]),
              Buildtime |-> JNumber(h[8]), Installtime |-> JNumber(h[9]),
              Sourcerpm |-> JOne(h[10]), Filedigestalgo |-> JNumber(h[11]),
              Basenames |-> JOne(Basename(f[1])), Dirnames |-> JOne(Dirname(f[1])),
              Dirindexes |-> JOne(0), Filesizes |-> JNumber(f[2]),
              Filemodes |-> JNumber(f[3]), Filemtimes |-> JNumber(f[4]),
              Filedigests |-> JOne(f[5]), Fileflags |-> JNumber(f[6]),
              Fileusername |-> JOne(f[7]), Filegroupname |-> JOne(f[8]),
              Filelinktos |-> JOne(f[9])]]

\* what the JSON decoder returns for the stream of the one record item
JsonDecodeOne(item) ==
    LET converted == TryFromRaw(DeserializeRawPackage(item.obj))
    IN  MapInsert(EmptyMap, converted.pkg.name, converted.pkg)

\* the tab decoder has returned the package of a stream of one well-formed
\* header and one well-formed file row with an absolute path
TabOnePackageOneFile ==
    /\ decoder = "tab" /\ status = "ok" /\ Len(input) = 2
    /\ input[1].kind = "PKG" /\ Len(input[1].fields) = 11
    /\ input[1].fields[1] # GPG /\ ParsePkgHeader(input[1].fields).ok
    /\ input[2].kind = "FILE" /\ Len(input[2].fields) = 9
    /\ ParseFileLine(input[2].fields).ok
    /\ IsAbsolute(input[2].fields[1])

C11_DecoderEquivalence ==
    TabOnePackageOneFile =>
        Unwrap(result) = JsonDecodeOne(TabAsJson(input[1].fields, input[2].fields))

\* what the two decoders do agree on for such a record: the key, the fields
\* both Package types have, the path of the file and every attribute of the
\* file but its digest
C11_CommonFields ==
    TabOnePackageOneFile =>
        LET json == JsonDecodeOne(TabAsJson(input[1].fields, input[2].fields))
            tab == Unwrap(result)
            common == {"name", "version", "release", "epoch", "arch", "license", "size",
                       "buildtime", "installtime", "sourcerpm"}
            attrs == {"size", "mode", "mtime", "flags", "user", "group", "linkto"}
        IN  /\ DOMAIN tab = DOMAIN json
            /\ \A n \in DOMAIN tab :
                  /\ \A c \in common : tab[n][c] = json[n][c]
                  /\ DOMAIN tab[n].files = DOMAIN json[n].files
                  /\ \A p \in DOMAIN tab[n].files :
                        \A a \in attrs : tab[n].files[p][a] = json[n].files[p][a]

(***************************************************************************)
(* C12: digest-algorithm resolution is closed.  The code a record of a     *)
(* package other than gpg-pubkey declares resolves exactly when it is one  *)
(* of 1, 2, 3, 5, 6, 7, 8, 9, 10, 11, 12, 14, and then to the algorithm    *)
(* named for it; any other code (0, 4, 13, 15, ...) fails the call with an *)
(* error that carries the name of the package and the code.                *)
(***************************************************************************)
ClaimedAlgorithms ==
    <<"Md5", "Sha1", "RipeMd160", "", "Md2", "Tiger192", "Haval5160", "Sha256",
      "Sha384", "Sha512", "Sha224", "Sha3_256", "", "Sha3_512">>
ClaimedCodes == {v \in 1..Len(ClaimedAlgorithms) : ClaimedAlgorithms[v] # ""}

\* the name and the code the last record declares, and the algorithm the
\* decoder resolved for it
LastName == IF decoder = "tab" THEN Last.fields[1] ELSE Last.obj.Name[2]
LastCode == IF decoder = "tab" THEN NumLit[Last.fields[11]] ELSE Last.obj.Filedigestalgo[2]
LastResolved ==
    IF decoder = "tab"
    THEN IF status = "ok" THEN Unwrap(result)[LastName].digest_algo
         ELSE Unwrap(current_pkg).digest_algo
    ELSE LET pkgs == IF status = "ok" THEN Unwrap(result) ELSE packages
         IN  Some(Unwrap(pkgs[LastName].files[P_d_f].digest).algorithm)

C12_AlgoClosed ==
    (HasLast /\ LastName # GPG) =>
        IF LastCode \in ClaimedCodes
        THEN status # "err" /\ LastResolved = Some(ClaimedAlgorithms[LastCode])
        ELSE /\ status = "err" /\ result = None
             /\ Unwrap(error).kind = "unknown digest algorithm"
             /\ Unwrap(error).pkg = LastName
             /\ Unwrap(error).detail \in DOMAIN NumLit
             /\ NumLit[Unwrap(error).detail] = LastCode

\* a JSON record that declares the code 13 has failed the call, after a
\* record that declared the code 14
C12_Witness ==
    /\ decoder = "json" /\ status = "err" /\ Len(input) = 2
    /\ input[1].obj.Filedigestalgo = JOne(14) /\ input[1].obj.Name = JOne("a")
    /\ LastCode = 13 /\ LastName = "a"
    /\ Unwrap(error).detail = "13"

(***************************************************************************)
(* C13: duplicate package names are last-insert-wins.  When several        *)
(* records of one input (header blocks or JSON records) carry the same     *)
(* name, the successful result holds one entry for that name, and it is    *)
(* the Package built from the last such record alone: its metadata and its *)
(* files are those of the last record, not merged with the earlier ones.   *)
(***************************************************************************)
\* tab stream: the header lines named n, and the line after the block of
\* header h
TabHeadersNamed(n) ==
    {j \in 1..Len(input) : input[j].kind = "PKG" /\ input[j].fields[1] = n}
BlockEnd(h) ==
    Min({j \in (h + 1)..Len(input) : input[j].kind = "PKG"} \cup {Len(input) + 1})

RECURSIVE ApplyRows(_, _, _)
\* the package pkg after the rows j .. end - 1 of its block
ApplyRows(pkg, j, end) ==
    IF j >= end THEN pkg
    ELSE LET l == input[j] IN
         IF l.kind = "FILE"
         THEN ApplyRows([pkg EXCEPT !.files = (ParseFileLine(l.fields).path :>
                                                  ParseFileLine(l.fields).info) @@ @],
                        j + 1, end)
         ELSE IF l.kind = "CL"
         THEN ApplyRows([pkg EXCEPT !.changelog_times = Append(@, NumLit[l.fields[1]])],
                        j + 1, end)
         ELSE ApplyRows(pkg, j + 1, end)

\* the Package of the block of header h alone
TabBlockPackage(h) == ApplyRows(ParsePkgHeader(input[h].fields).pkg, h + 1, BlockEnd(h))

\* JSON stream: the records named n, and the Package of record r alone
JsonRecordsNamed(n) ==
    {j \in 1..Len(input) : DeserializeRawPackage(input[j].obj).name = n}
JsonRecordPackage(r) == TryFromRaw(DeserializeRawPackage(input[r].obj)).pkg

\* the names the records of the input carry, gpg-pubkey apart
InputNames ==
    {n \in IF decoder = "tab"
           THEN {input[j].fields[1] : j \in {i \in 1..Len(input) : input[i].kind = "PKG"}}
           ELSE {DeserializeRawPackage(input[j].obj).name : j \in 1..Len(input)} :
        n # GPG}

C13_LastInsertWins ==
    status = "ok" =>
        /\ DOMAIN Unwrap(result) = InputNames
        /\ \A n \in InputNames :
              Unwrap(result)[n] =
                  IF decoder = "tab" THEN TabBlockPackage(Max(TabHeadersNamed(n)))
                  ELSE JsonRecordPackage(Max(JsonRecordsNamed(n)))

\* two header blocks named a, the first with a file row and the second with
\* another epoch and no row: the entry is the second block's
C13_Witness ==
    /\ decoder = "tab" /\ status = "ok" /\ Len(input) = 3
    /\ input[1].kind = "PKG" /\ input[1].fields[1] = "a" /\ input[1].fields[4] = "(none)"
    /\ input[2].kind = "FILE"
    /\ input[3].kind = "PKG" /\ input[3].fields[1] = "a" /\ input[3].fields[4] = "2"
    /\ DOMAIN Unwrap(result) = {"a"}
    /\ Unwrap(result)["a"].epoch = Some(2)
    /\ DOMAIN Unwrap(result)["a"].files = {}

(***************************************************************************)
(* C14: in every successful result of either decoder, every key of the     *)
(* file map of every package is an absolute path.                          *)
(***************************************************************************)
C14_AbsoluteKeys ==
    status = "ok" =>
        \A n \in DOMAIN Unwrap(result) :
            \A p \in DOMAIN Unwrap(result)[n].files : IsAbsolute(p)

\* the same, for the streams whose file rows name an absolute path and whose
\* directory tables hold absolute directories: the decoders add no relative
\* path of their own
AbsoluteInput ==
    \A j \in 1..Len(input) :
        IF decoder = "tab"
        THEN input[j].kind = "FILE" => IsAbsolute(input[j].fields[1])
        ELSE Deserializable(input[j]) =>
                 \A k \in 1..Len(DeserializeRawPackage(input[j].obj).dirnames) :
                     IsAbsolute(DeserializeRawPackage(input[j].obj).dirnames[k])
C14_AbsoluteKeysOfAbsoluteInput == AbsoluteInput => C14_AbsoluteKeys

(***************************************************************************)
(* C15: the skip state of the tab-stream decoder.  While the call runs,    *)
(* the decoder is in the skip state exactly when the last header line read *)
(* is a gpg-pubkey header, and then no package is open; every file row and *)
(* changelog row read in the skip state is discarded, changing neither the *)
(* packages, nor the skip state, nor the outcome of the call; and the skip *)
(* state changes only when a header line is read.  So no file row is       *)
(* processed for a name classified as skipped.                             *)
(***************************************************************************)
TabRunning == decoder = "tab" /\ status = "running"
ReadsOne == input' # input /\ Len(input') = Len(input) + 1
LastRead == input'[Len(input')]

C15_SkipStateInv ==
    TabRunning =>
        /\ skip <=> InSkippedRows(Len(input) + 1)
        /\ skip => current_pkg = None

C15_SkipStep ==
    /\ (TabRunning /\ skip /\ ReadsOne /\ LastRead.kind \in {"FILE", "CL"})
          => UNCHANGED <<status, packages, current_pkg, skip, result, error>>
    /\ (TabRunning /\ status' = "running" /\ skip' # skip)
          => ReadsOne /\ LastRead.kind = "PKG"

C15_SkipState == []C15_SkipStateInv /\ [][C15_SkipStep]_vars

\* after a package a, a gpg-pubkey header, then a file row and a changelog
\* row read in the skip state
C15_Witness ==
    /\ TabRunning /\ skip /\ Len(input) = 4
    /\ input[1].kind = "PKG" /\ input[1].fields[1] = "a"
    /\ input[2].kind = "PKG" /\ input[2].fields[1] = GPG
    /\ input[3].kind = "FILE" /\ input[4].kind = "CL"
    /\ DOMAIN packages = {"a"} /\ current_pkg = None

(***************************************************************************)
(* C16: the end of a tab stream.  If a package is open when the input ends *)
(* without error, the call returns it in the result, under its name, as it *)
(* stands, next to the packages finalized before; so the result of a       *)
(* stream whose last header is not a gpg-pubkey header holds the package   *)
(* of that header with every file row and every changelog row read after   *)
(* it, the changelog times in the order read.                              *)
(***************************************************************************)
\* the lines of a kind read after the header line h, in the order read
RowsAfter(h, kind) == {j \in (h + 1)..Len(input) : input[j].kind = kind}
NthOf(S, k) == CHOOSE j \in S : Cardinality({i \in S : i <= j}) = k
LastHeader == Max(HeadersBefore(Len(input) + 1))

C16_LastBlockKept ==
    (decoder = "tab" /\ status = "ok" /\ HeadersBefore(Len(input) + 1) # {}
        /\ input[LastHeader].fields[1] # GPG) =>
        LET h == LastHeader
            n == input[h].fields[1]
            files == RowsAfter(h, "FILE")
            cls == RowsAfter(h, "CL")
        IN  /\ n \in DOMAIN Unwrap(result)
            /\ DOMAIN Unwrap(result)[n].files = {input[j].fields[1] : j \in files}
            /\ \A j \in files :
                  (\A i \in files : i > j => input[i].fields[1] # input[j].fields[1])
                      => Unwrap(result)[n].files[input[j].fields[1]] =
                             ParseFileLine(input[j].fields).info
            /\ Len(Unwrap(result)[n].changelog_times) = Cardinality(cls)
            /\ \A k \in 1..Cardinality(cls) :
                  Unwrap(result)[n].changelog_times[k] =
                      NumLit[input[NthOf(cls, k)].fields[1]]

C16_EofStep ==
    (TabRunning /\ status' = "ok" /\ IsSome(current_pkg)) =>
        LET pkg == Unwrap(current_pkg) IN
        /\ DOMAIN Unwrap(result') = DOMAIN packages \cup {pkg.name}
        /\ Unwrap(result')[pkg.name] = pkg
        /\ \A n \in DOMAIN packages : n # pkg.name => Unwrap(result')[n] = packages[n]

C16_EndOfStream == []C16_LastBlockKept /\ [][C16_EofStep]_vars

\* the stream ends after a header, a file row and two changelog rows
C16_Witness ==
    /\ decoder = "tab" /\ status = "ok" /\ Len(input) = 4
    /\ input[1].kind = "PKG" /\ input[2].kind = "FILE"
    /\ input[3].kind = "CL" /\ input[4].kind = "CL"
    /\ DOMAIN Unwrap(result) = {"a"}
    /\ DOMAIN Unwrap(result)["a"].files = {P_d_f}
    /\ Unwrap(result)["a"].changelog_times = <<3000, 1000>>

(***************************************************************************)
(* C17: header handling of the tab-stream decoder.  A header line read     *)
(* while a package is open puts that package into the package map, under   *)
(* its name and as it stands, and only then opens the new package (named   *)
(* by the header, with no file yet); at most one package is open at any    *)
(* time; and a successful result has one entry for each distinct name of   *)
(* the headers read, gpg-pubkey apart.                                     *)
(***************************************************************************)
C17_OneOpen ==
    /\ Len(current_pkg) <= 1
    /\ (decoder = "tab" /\ status = "ok") =>
           /\ \A j \in HeadersBefore(Len(input) + 1) :
                 input[j].fields[1] # GPG => input[j].fields[1] \in DOMAIN Unwrap(result)
           /\ Cardinality(DOMAIN Unwrap(result)) =
                 Cardinality({input[j].fields[1] : j \in HeadersBefore(Len(input) + 1)}
                             \ {GPG})

C17_HeaderStep ==
    (TabRunning /\ IsSome(current_pkg) /\ ReadsOne /\ LastRead.kind = "PKG"
        /\ status' = "running") =>
        LET pkg == Unwrap(current_pkg) IN
        /\ DOMAIN packages' = DOMAIN packages \cup {pkg.name}
        /\ packages'[pkg.name] = pkg
        /\ \A n \in DOMAIN packages : n # pkg.name => packages'[n] = packages[n]
        /\ IsSome(current_pkg') =>
              /\ Unwrap(current_pkg').name = LastRead.fields[1]
              /\ DOMAIN Unwrap(current_pkg').files = {}

C17_HeaderFinalizes == []C17_OneOpen /\ [][C17_HeaderStep]_vars

\* the header of b was read while a was open with one file: a is in the map
\* and b is the open package
C17_Witness ==
    /\ TabRunning /\ Len(input) = 4
    /\ input[1].kind = "PKG" /\ input[1].fields[1] = "b"
    /\ input[2].kind = "PKG" /\ input[2].fields[1] = "a"
    /\ input[3].kind = "FILE"
    /\ input[4].kind = "PKG" /\ input[4].fields[1] = "b"
    /\ DOMAIN packages = {"a", "b"}
    /\ DOMAIN packages["a"].files = {input[3].fields[1]}
    /\ IsSome(current_pkg) /\ Unwrap(current_pkg).name = "b"

(***************************************************************************)
(* C18: a file row or a changelog row that the tab-stream decoder reads    *)
(* while it is not in the skip state and no package is open (no header has *)
(* been read yet) fails the call, with an error that names the number of   *)
(* that line in the stream (blank lines counted).                          *)
(***************************************************************************)
C18_RowStep ==
    (TabRunning /\ ~skip /\ IsNone(current_pkg) /\ ReadsOne
        /\ LastRead.kind \in {"FILE", "CL"}) =>
        /\ status' = "err" /\ result' = None
        /\ Unwrap(error').kind =
              IF LastRead.kind = "FILE" THEN "FILE line before any PKG"
              ELSE "CL line before any PKG"
        /\ Unwrap(error').line = Len(input')

C18_RowBeforeHeader == [][C18_RowStep]_vars

\* a changelog row on line 3, after two blank lines and before any header
C18_Witness ==
    /\ decoder = "tab" /\ status = "err" /\ Len(input) = 3
    /\ input[1].kind = "blank" /\ input[2].kind = "blank" /\ input[3].kind = "CL"
    /\ Unwrap(error).kind = "CL line before any PKG"
    /\ Unwrap(error).line = 3

(***************************************************************************)
(* C19: field counts of the tab stream.  A header line is accepted only    *)
(* with exactly 11 fields, in every state of the decoder, and a file row   *)
(* read outside the skip state for an open package only with exactly 9.    *)
(* A header with another count fails the call with an error that names the *)
(* line number, the expected count 11 and the count the line has; a file   *)
(* row with another count fails it with an error that names the line       *)
(* number, the expected count 9 and the name of the open package.  A line  *)
(* with the right count never fails for its count.                         *)
(***************************************************************************)
CountFailure(kind, expected, pkg) ==
    /\ status' = "err" /\ result' = None
    /\ Unwrap(error').kind = kind
    /\ Unwrap(error').line = Len(input')
    /\ Unwrap(error').expected = expected
    /\ Unwrap(error').got = Len(LastRead.fields)
    /\ Unwrap(error').pkg = pkg

NoCountFailure ==
    status' = "err" => Unwrap(error').kind \notin {"PKG field count", "FILE field count"}

C19_CountStep ==
    /\ (TabRunning /\ ReadsOne /\ LastRead.kind = "PKG") =>
          IF Len(LastRead.fields) # 11
          THEN CountFailure("PKG field count", 11, "")
          ELSE NoCountFailure
    /\ (TabRunning /\ ~skip /\ IsSome(current_pkg) /\ ReadsOne /\ LastRead.kind = "FILE") =>
          IF Len(LastRead.fields) # 9
          THEN CountFailure("FILE field count", 9, Unwrap(current_pkg).name)
          ELSE NoCountFailure

C19_FieldCounts == [][C19_CountStep]_vars

\* a file row with two fields on line 3, read for the open package b
C19_Witness ==
    /\ decoder = "tab" /\ status = "err" /\ Len(input) = 3
    /\ input[1].kind = "blank"
    /\ input[2].kind = "PKG" /\ input[2].fields[1] = "b"
    /\ input[3].kind = "FILE" /\ Len(input[3].fields) = 2
    /\ Unwrap(error).kind = "FILE field count"
    /\ Unwrap(error).line = 3 /\ Unwrap(error).pkg = "b"
    /\ Unwrap(error).expected = 9 /\ Unwrap(error).got = 2

(***************************************************************************)
(* C20: in every state of the tab-stream decoder, a line that is not blank *)
(* and does not begin with one of the three prefix tokens fails the call,  *)
(* with the "unexpected line format" error; and a blank line is ignored:   *)
(* it changes neither the state of the decoder nor the outcome.            *)
(***************************************************************************)
BlankIgnored ==
    (TabRunning /\ ReadsOne /\ LastRead.kind = "blank")
        => UNCHANGED <<status, packages, current_pkg, skip, result, error>>

UnexpectedFails ==
    /\ status' = "err" /\ result' = None
    /\ Unwrap(error').kind = "unexpected line format"
    /\ Unwrap(error').line = Len(input')

C20_UnexpectedStep ==
    /\ (TabRunning /\ ReadsOne /\ LastRead.kind = "other") => UnexpectedFails
    /\ BlankIgnored

C20_UnexpectedLine == [][C20_UnexpectedStep]_vars

\* the same outside the skip state, where it holds; in the skip state the
\* line is dropped like a row
C20_OutsideSkipStep ==
    /\ (TabRunning /\ ReadsOne /\ LastRead.kind = "other") =>
          IF skip THEN UNCHANGED <<status, packages, current_pkg, skip, result, error>>
          ELSE UnexpectedFails
    /\ BlankIgnored

C20_UnexpectedLineOutsideSkip == [][C20_OutsideSkipStep]_vars

(***************************************************************************)
(* C21: changelog rows of the tab stream.  The changelog times of a        *)
(* package are the timestamps of the changelog rows of its header block,   *)
(* in the order read, duplicates kept and nothing sorted, and the empty    *)
(* sequence when the block has no such row: for the open package while the *)
(* call runs and for every package of a successful result.  A changelog    *)
(* row of an open package whose timestamp is no number fails the call with *)
(* an error that names the line number and the package.                    *)
(***************************************************************************)
\* the changelog rows of the block of header h, and their times in order
ChangelogRows(h) == {j \in (h + 1)..(BlockEnd(h) - 1) : input[j].kind = "CL"}
ChangelogOf(h) ==
    [k \in 1..Cardinality(ChangelogRows(h)) |->
        NumLit[input[NthOf(ChangelogRows(h), k)].fields[1]]]

C21_ChangelogOrder ==
    /\ (TabRunning /\ IsSome(current_pkg)) =>
           Unwrap(current_pkg).changelog_times = ChangelogOf(LastHeader)
    /\ (decoder = "tab" /\ status = "ok") =>
           \A n \in DOMAIN Unwrap(result) :
               Unwrap(result)[n].changelog_times = ChangelogOf(Max(TabHeadersNamed(n)))
    /\ (decoder = "tab" /\ HasLast /\ Last.kind = "CL"
           /\ Last.fields[1] \notin DOMAIN NumLit
           /\ HeadersBefore(Len(input)) # {}
           /\ input[Max(HeadersBefore(Len(input)))].fields[1] # GPG) =>
           /\ status = "err" /\ result = None
           /\ Unwrap(error).kind = "invalid changelog time"
           /\ Unwrap(error).line = Len(input)
           /\ Unwrap(error).pkg = input[Max(HeadersBefore(Len(input)))].fields[1]

\* the rows 3000, 1000, 3000 of package a: a duplicate, and not in ascending
\* order
C21_Witness ==
    /\ decoder = "tab" /\ status = "ok" /\ Len(input) = 4
    /\ input[1].kind = "PKG" /\ input[1].fields[1] = "a"
    /\ input[2] = ClRow("3000") /\ input[3] = ClRow("1000") /\ input[4] = ClRow("3000")
    /\ Unwrap(result)["a"].changelog_times = <<3000, 1000, 3000>>

(***************************************************************************)
(* C22: the required-field policy of the normalizer.  If, for a file index *)
(* i below the file count, one of the attribute arrays (size, mode, mtime, *)
(* flags, owner user, owner group, digest string, symlink target) has no   *)
(* entry at i, the conversion fails and the call returns an error that     *)
(* names the package; the conversion stops at the first fault it meets, so *)
(* when no directory index is bad up to the first such i, the error names  *)
(* that file index and an attribute missing there.  No attribute is        *)
(* defaulted: every attribute of a file of a converted record is the entry *)
(* of its array.                                                           *)
(***************************************************************************)
ClaimAttributes(raw) ==
    [filesize |-> raw.filesizes, filemode |-> raw.filemodes,
     filemtime |-> raw.filemtimes, fileflags |-> raw.fileflags,
     fileusername |-> raw.fileusername, filegroupname |-> raw.filegroupname,
     filedigest |-> raw.filedigests, filelinkto |-> raw.filelinktos]
MissingAt(raw, i) ==
    {a \in DOMAIN ClaimAttributes(raw) : i >= Len(ClaimAttributes(raw)[a])}
Incomplete(raw) == {i \in RawIndices(raw) : MissingAt(raw, i) # {}}

C22_RequiredFields ==
    JsonRecordConverted =>
        LET raw == LastRaw IN
        /\ Incomplete(raw) # {} =>
              /\ status = "err" /\ result = None /\ IsSome(error)
              /\ Unwrap(error).pkg = raw.name
              /\ (AlgoResolves(raw) /\
                  \A j \in 0..Min(Incomplete(raw)) : ~BadDirindex(raw, j))
                   => /\ Unwrap(error).kind = "missing attribute"
                      /\ Unwrap(error).index = Min(Incomplete(raw))
                      /\ Unwrap(error).detail \in MissingAt(raw, Min(Incomplete(raw)))
        /\ status # "err" =>
              LET pkgs == IF status = "ok" THEN Unwrap(result) ELSE packages IN
              \A i \in RawIndices(raw) :
                  LastWithItsPath(raw, i) =>
                      LET info == pkgs[raw.name].files[RawPath(raw, i)] IN
                      /\ info.size = raw.filesizes[i + 1]
                      /\ info.mode = raw.filemodes[i + 1]
                      /\ info.mtime = raw.filemtimes[i + 1]
                      /\ Raw(info.flags) = raw.fileflags[i + 1]
                      /\ info.user = raw.fileusername[i + 1]
                      /\ info.group = raw.filegroupname[i + 1]

\* the owner-group array of a record of two files has one entry: the
\* conversion fails at index 1, naming the attribute
C22_Witness ==
    /\ JsonRecordConverted /\ status = "err"
    /\ Len(LastRaw.basenames) = 2 /\ Len(LastRaw.filegroupname) = 1
    /\ Unwrap(error).kind = "missing attribute"
    /\ Unwrap(error).pkg = "a" /\ Unwrap(error).index = 1
    /\ Unwrap(error).detail = "filegroupname"

(***************************************************************************)
(* C23: path reconstruction of the normalizer.  For every file index i of  *)
(* a converted record, the key under which the file is inserted is the     *)
(* concatenation of the directory name its directory index selects and its *)
(* basename, whatever the directory name (with or without a trailing       *)
(* separator) and the basename (empty, or starting with a separator).      *)
(***************************************************************************)
Concatenation(raw, i) == raw.dirnames[raw.dirindexes[i + 1] + 1] \o raw.basenames[i + 1]

C23_PathConcatenation ==
    JsonRecordInserted =>
        /\ \A i \in RawIndices(LastRaw) :
              Concatenation(LastRaw, i) \in DOMAIN packages[LastRaw.name].files
        /\ DOMAIN packages[LastRaw.name].files =
              {Concatenation(LastRaw, i) : i \in RawIndices(LastRaw)}

\* the same for the records the query tool writes, where it holds: every
\* directory name ends with a separator and no basename starts with one
TrailingSeparator(d) == Len(d) > 0 /\ d[Len(d)] = SEP
C23_ConcatenationOfClosedDirs ==
    (JsonRecordInserted
        /\ \A i \in RawIndices(LastRaw) :
              /\ TrailingSeparator(LastRaw.dirnames[LastRaw.dirindexes[i + 1] + 1])
              /\ ~IsAbsolute(LastRaw.basenames[i + 1]))
        => C23_PathConcatenation

(***************************************************************************)
(* C24: duplicate file paths within one package.  Under either decoder a   *)
(* second record of a path the package already holds does not fail the     *)
(* decode; the file map has one entry for the path, with the FileInfo of   *)
(* the last record of that path, and the entries of the other paths are    *)
(* those of their own last records.                                        *)
(***************************************************************************)
\* tab stream: the file rows of the block of header h, and those that are
\* the last of their path in the block
FileRowsOf(h) == {j \in (h + 1)..(BlockEnd(h) - 1) : input[j].kind = "FILE"}
LastOfItsPath(h, j) ==
    \A i \in FileRowsOf(h) : i > j => input[i].fields[1] # input[j].fields[1]

\* tab stream: the last line read is a well-formed file row of the open
\* package, for a path an earlier row of the block has
TabDuplicateRow ==
    /\ decoder = "tab" /\ HasLast /\ Last.kind = "FILE"
    /\ Len(Last.fields) = 9 /\ ParseFileLine(Last.fields).ok
    /\ HeadersBefore(Len(input)) # {}
    /\ input[Max(HeadersBefore(Len(input)))].fields[1] # GPG
    /\ \E j \in FileRowsOf(Max(HeadersBefore(Len(input)))) :
          j < Len(input) /\ input[j].fields[1] = Last.fields[1]

\* JSON stream: the last record read is well-formed and names a path twice
JsonDuplicatePath ==
    /\ JsonRecordConverted
    /\ AlgoResolves(LastRaw) /\ IsSome(LastRaw.arch)
    /\ \A i \in RawIndices(LastRaw) : ~BadDirindex(LastRaw, i)
    /\ Incomplete(LastRaw) = {}
    /\ \E i \in RawIndices(LastRaw) : ~LastWithItsPath(LastRaw, i)

C24_DuplicatePaths ==
    /\ TabDuplicateRow =>
          /\ status # "err"
          /\ LET h == LastHeader
                 files == IF status = "ok" THEN Unwrap(result)[input[h].fields[1]].files
                          ELSE Unwrap(current_pkg).files
             IN  /\ Cardinality(DOMAIN files) =
                        Cardinality({input[j].fields[1] : j \in FileRowsOf(h)})
                 /\ \A j \in FileRowsOf(h) :
                        LastOfItsPath(h, j) =>
                            files[input[j].fields[1]] = ParseFileLine(input[j].fields).info
    /\ JsonDuplicatePath =>
          /\ status # "err"
          /\ LET raw == LastRaw
                 files == IF status = "ok" THEN Unwrap(result)[raw.name].files
                          ELSE packages[raw.name].files
             IN  /\ Cardinality(DOMAIN files) =
                        Cardinality({RawPath(raw, i) : i \in RawIndices(raw)})
                 /\ \A i \in RawIndices(raw) :
                        LastWithItsPath(raw, i) =>
                            LET info == files[RawPath(raw, i)] IN
                            /\ info.size = raw.filesizes[i + 1]
                            /\ info.mode = raw.filemodes[i + 1]
                            /\ info.mtime = raw.filemtimes[i + 1]
                            /\ Raw(info.flags) = raw.fileflags[i + 1]
                            /\ info.user = raw.fileusername[i + 1]
                            /\ info.group = raw.filegroupname[i + 1]
                            /\ IsSome(info.digest) <=> raw.filedigests[i + 1] # ""
                            /\ info.linkto =
                                  IF raw.filelinktos[i + 1] = "" THEN None
                                  ELSE Some(raw.filelinktos[i + 1])

\* package a: /d/f with a digest, /d/s, then /d/f again as a ghost file
\* with no digest
C24_Witness ==
    /\ TabDuplicateRow /\ status = "running" /\ Len(input) = 4
    /\ input[2].kind = "FILE" /\ input[3].kind = "FILE"
    /\ input[2].fields[1] = P_d_f /\ input[2].fields[5] = "ab"
    /\ input[3].fields[1] = P_d_s
    /\ input[4].fields[1] = P_d_f /\ input[4].fields[5] = ""
    /\ DOMAIN Unwrap(current_pkg).files = {P_d_f, P_d_s}
    /\ Unwrap(current_pkg).files[P_d_f].digest = None
    /\ IsGhost(Unwrap(current_pkg).files[P_d_f].flags)

(***************************************************************************)
(* C25: the one-or-many coercion of the JSON decoder.  Each per-file field *)
(* of a record is coerced on its own, whatever the other fields are: an    *)
(* absent field becomes the empty sequence, a bare scalar the sequence of  *)
(* that one element, and an array is kept as it is, same elements in the   *)
(* same order.  The files of a converted record are built from these       *)
(* sequences.                                                              *)
(***************************************************************************)
\* the JSON name of each per-file field and the name of the field of the raw
\* record that receives it
CoercedFields ==
    << <<"Basenames", "basenames">>, <<"Dirnames", "dirnames">>,
       <<"Dirindexes", "dirindexes">>, <<"Filesizes", "filesizes">>,
       <<"Filemodes", "filemodes">>, <<"Filemtimes", "filemtimes">>,
       <<"Filedigests", "filedigests">>, <<"Fileflags", "fileflags">>,
       <<"Fileusername", "fileusername">>, <<"Filegroupname", "filegroupname">>,
       <<"Filelinktos", "filelinktos">> >>

CoercedAsClaimed(jv, v) ==
    /\ jv = JAbsent => v = <<>>
    /\ jv[1] = "one" => Len(v) = 1 /\ v[1] = jv[2]
    /\ jv[1] = "many" => Len(v) = Len(jv[2]) /\ \A k \in 1..Len(v) : v[k] = jv[2][k]

C25_OneOrMany ==
    (decoder = "json" /\ HasLast /\ Deserializable(Last)) =>
        /\ \A k \in 1..Len(CoercedFields) :
              CoercedAsClaimed(Last.obj[CoercedFields[k][1]], LastRaw[CoercedFields[k][2]])
        /\ (status # "err" /\ LastRaw.name # GPG) =>
              LET files == IF status = "ok" THEN Unwrap(result)[LastRaw.name].files
                           ELSE packages[LastRaw.name].files
                  count == IF Last.obj.Basenames = JAbsent THEN 0
                           ELSE IF Last.obj.Basenames[1] = "one" THEN 1
                           ELSE Len(Last.obj.Basenames[2])
                  sizes == Last.obj.Filesizes
              IN  /\ Cardinality(DOMAIN files) <= count
                  /\ count > 0 => DOMAIN files # {}
                  /\ \A i \in 0..(count - 1) :
                        LastWithItsPath(LastRaw, i) =>
                            files[RawPath(LastRaw, i)].size =
                                IF sizes[1] = "one" THEN sizes[2] ELSE sizes[2][i + 1]

\* a record whose Basenames field is a bare scalar and whose Filesizes field
\* is an array of three elements: one file
C25_Witness ==
    /\ decoder = "json" /\ status = "running" /\ HasLast
    /\ Last.obj.Basenames = JOne(B_d)
    /\ Last.obj.Filesizes = JMany(<<0, 100, 4>>)
    /\ LastRaw.basenames = <<B_d>>
    /\ DOMAIN packages["a"].files = {P_d}

(***************************************************************************)
(* C26: a gpg-pubkey header read by the tab-stream decoder while a package *)
(* is open.  With exactly 11 fields it does not fail the call: the package *)
(* that was open is in the package map as its own block left it, no        *)
(* package is open and the decoder is in the skip state, so that the rows  *)
(* after the gpg-pubkey header are not attached to the package before it.  *)
(* With another field count the call fails on that line.                   *)
(***************************************************************************)
PreviousHeader == Max(HeadersBefore(Len(input)))

C26_GpgHeaderWhileOpen ==
    /\ (decoder = "tab" /\ HasLast /\ Last.kind = "PKG" /\ Last.fields[1] = GPG) =>
          IF Len(Last.fields) = 11
          THEN /\ status # "err"
               /\ status = "running" =>
                     /\ current_pkg = None /\ skip
                     /\ (HeadersBefore(Len(input)) # {}
                            /\ input[PreviousHeader].fields[1] # GPG) =>
                           LET n == input[PreviousHeader].fields[1] IN
                           /\ n \in DOMAIN packages
                           /\ packages[n] = TabBlockPackage(PreviousHeader)
          ELSE /\ status = "err" /\ result = None
               /\ Unwrap(error).kind = "PKG field count"
               /\ Unwrap(error).line = Len(input)
    /\ (decoder = "tab" /\ status = "ok") =>
          \A n \in DOMAIN Unwrap(result) :
              LET h == Max(TabHeadersNamed(n)) IN
              (BlockEnd(h) <= Len(input) /\ input[BlockEnd(h)].fields[1] = GPG) =>
                  /\ DOMAIN Unwrap(result)[n].files =
                        {input[j].fields[1] : j \in FileRowsOf(h)}
                  /\ Len(Unwrap(result)[n].changelog_times) =
                        Cardinality(ChangelogRows(h))

\* package a with one file row, then a gpg-pubkey header and a file row for
\* another path: a has the one file
C26_Witness ==
    /\ decoder = "tab" /\ status = "ok" /\ Len(input) = 4
    /\ input[1].kind = "PKG" /\ input[1].fields[1] = "a"
    /\ input[2].kind = "FILE" /\ input[2].fields[1] = P_d_f
    /\ input[3].kind = "PKG" /\ input[3].fields[1] = GPG
    /\ input[4].kind = "FILE" /\ input[4].fields[1] = P_d_s
    /\ DOMAIN Unwrap(result) = {"a"}
    /\ DOMAIN Unwrap(result)["a"].files = {P_d_f}

(***************************************************************************)
(* C27: in the JSON normalizer the files of a record are counted by its    *)
(* basenames.  The file map of a converted record has at most as many      *)
(* entries as the record has basenames, and exactly the paths of the       *)
(* indices below that count; a record whose directory index and attributes *)
(* are there for every index below the count converts without error        *)
(* however long the other arrays are and whatever they hold beyond it; a   *)
(* record with no basenames gives an empty file map.                       *)
(***************************************************************************)
LastFiles ==
    IF status = "ok" THEN Unwrap(result)[LastRaw.name].files
    ELSE packages[LastRaw.name].files

\* an array of the record has entries at or beyond the count of basenames
HasExtraEntries(raw) ==
    \/ Len(raw.dirindexes) > Len(raw.basenames)
    \/ \E a \in DOMAIN ClaimAttributes(raw) :
          Len(ClaimAttributes(raw)[a]) > Len(raw.basenames)

C27_FileCount ==
    JsonRecordConverted =>
        LET raw == LastRaw IN
        /\ status # "err" =>
              /\ Cardinality(DOMAIN LastFiles) <= Len(raw.basenames)
              /\ DOMAIN LastFiles = {RawPath(raw, i) : i \in RawIndices(raw)}
        /\ (/\ AlgoResolves(raw) /\ IsSome(raw.arch)
            /\ \A i \in RawIndices(raw) :
                  ~BadDirindex(raw, i) /\ MissingAt(raw, i) = {})
              => status # "err"
        /\ (Len(raw.basenames) = 0 /\ AlgoResolves(raw) /\ IsSome(raw.arch))
              => status # "err" /\ LastFiles = EmptyMap

\* one basename, three directory indices of which the second is beyond the
\* one directory name, two entries in every attribute array: one file
C27_Witness ==
    /\ JsonRecordConverted /\ status = "running"
    /\ Len(LastRaw.basenames) = 1 /\ Len(LastRaw.dirnames) = 1
    /\ Len(LastRaw.dirindexes) = 2 /\ BadDirindex(LastRaw, 1)
    /\ HasExtraEntries(LastRaw)
    /\ Cardinality(DOMAIN LastFiles) = 1

(***************************************************************************)
(* C28: a record whose name is not gpg-pubkey and whose architecture is    *)
(* absent (the "(none)" sentinel in the architecture field of an 11-field  *)
(* header, a JSON record without Arch) fails the call with an error that   *)
(* names the package; it is the missing-architecture error when nothing    *)
(* the decoder looks at earlier in the record fails first.  Every package  *)
(* of a successful result has the architecture value its record gave.      *)
(***************************************************************************)
\* the architecture values the records named n give
InputArchs(n) ==
    IF decoder = "tab"
    THEN {input[j].fields[5] : j \in {h \in TabHeadersNamed(n) : Len(input[h].fields) = 11}}
            \ {NONE_SENTINEL}
    ELSE {Unwrap(DeserializeRawPackage(input[j].obj).arch) :
             j \in {r \in JsonRecordsNamed(n) :
                       IsSome(DeserializeRawPackage(input[r].obj).arch)}}

TabArchAbsent ==
    /\ decoder = "tab" /\ HasLast /\ Last.kind = "PKG"
    /\ Len(Last.fields) = 11 /\ Last.fields[1] # GPG
    /\ Last.fields[5] = NONE_SENTINEL

JsonArchAbsent == JsonRecordConverted /\ IsNone(LastRaw.arch)

C28_MissingArch ==
    /\ TabArchAbsent =>
          /\ status = "err" /\ result = None /\ IsSome(error)
          /\ Unwrap(error).pkg = Last.fields[1]
          /\ Unwrap(error).line = Len(input)
          /\ HeaderEpoch(Last.fields[1], Last.fields[4]).ok =>
                Unwrap(error).kind = "missing arch"
    /\ JsonArchAbsent =>
          /\ status = "err" /\ result = None /\ IsSome(error)
          /\ Unwrap(error).pkg = LastRaw.name
          /\ (/\ AlgoResolves(LastRaw)
              /\ \A i \in RawIndices(LastRaw) :
                    ~BadDirindex(LastRaw, i) /\ MissingAt(LastRaw, i) = {})
                => Unwrap(error).kind = "missing arch"
    /\ status = "ok" =>
          \A n \in DOMAIN Unwrap(result) :
              /\ Unwrap(result)[n].arch # NONE_SENTINEL
              /\ Unwrap(result)[n].arch \in InputArchs(n)

\* a header without architecture after a package that was read whole
C28_Witness ==
    /\ TabArchAbsent /\ Len(input) = 3
    /\ input[1].kind = "PKG" /\ input[1].fields[1] = "a" /\ Len(input[1].fields) = 11
    /\ input[2].kind = "FILE"
    /\ Last.fields[1] = "b"
    /\ status = "err" /\ Unwrap(error).kind = "missing arch"

====
